---- MODULE Spec2Model ----
(***************************************************************************)
(* A model of github.com/ianlewis/lexparse:                                *)
(*   - lexer.CustomLexer.NextToken, the state-machine runtime              *)
(*     (src/lexer/scanner.go, 272-309 and 523-554), and the scanner        *)
(*     operations a LexState calls (src/lexer/scanner.go, 226-267 and      *)
(*     311-518);                                                           *)
(*   - lexparse.LexParse, the driver that runs a lexer and a parser as two *)
(*     goroutines joined by a buffered channel (src/lexparse.go), with     *)
(*     Parser.Parse / Peek / Next (src/unnamed/part_004, 173-245).         *)
(*                                                                         *)
(* User code (LexState.Run, ParseState.Run) is the environment: a Run is   *)
(* any sequence of the calls the API offers, followed by any return value. *)
(***************************************************************************)
EXTENDS Integers, Sequences, FiniteSets, TLC

(***************************************************************************)
(* Bounds of the model.                                                    *)
(***************************************************************************)
\* Tokens that Emit may allocate in one behaviour.
MaxTokens == 2
\* NextToken calls made by a direct caller of the lexer (SpecLex).
MaxCalls == 4
\* Largest capacity of the token channel (the code's is channelBufSize).
MaxChanCap == 2
\* Largest depth of the parser's state stack.
MaxStack == 2
\* Longest input, in runes, that the scanner reads.
MaxInput == 2
\* Tokens that may be queued while the scanner is used alone (SpecScan).
MaxQueued == 1
\* NextToken calls made on a lexer whose states use the scanner (SpecRun).
MaxRunCalls == 2
\* The largest number of nodes a parser allocates, the root included.
MaxNodes == 5
\* A Parser used on its own (SpecParse): the words its token source holds,
\* the states Parse runs, the depth of its state stack, and the nodes it
\* allocates, the root included.
MaxSource == 2
MaxRan == 4
MaxSoloStack == 3
MaxSoloNodes == 2
MaxPulls == 3
\* Nodes allocated by a state that calls the Parser's methods in any order.
MaxCallNodes == 3
\* The runes of the inputs that DiscardTo searches on its own (SpecDiscardTo).
MaxLongInput == 4
\* A ScanningLexer used on its own (SpecScanning): the tokens its scanner
\* finds before the end of the input, the errors the scanner reports during
\* one Scan, and the calls of NextToken.
MaxScanItems == 2
MaxScanErrs == 2
MaxScanCalls == 4

(***************************************************************************)
(* Values.                                                                 *)
(***************************************************************************)
\* A nil pointer, a nil interface.
Nil == "nil"
\* error(nil).
NoErr == "nil"
EOFErr == "io.EOF"
Canceled == "context.Canceled"
DeadlineExceeded == "context.DeadlineExceeded"
\* The error a failing lex state returns.
errState == "errState"
\* The error a failing parse state returns.
errParse == "errParse"
\* A non-EOF error of the underlying reader, recorded by a scanner operation.
errRead == "errRead"

TokenTypeEOF == -1
TokenTypeIdent == -2
TokenTypeString == -6
wordType == 1
TokenTypes == {TokenTypeEOF, wordType}

\* A non-nil LexState value (states are opaque to the runtime).
LexStates == {"lexState"}
\* A non-nil ParseState value.
ParseStates == {"parseState"}

\* The causes with which the caller's context can end.
CancelCauses == {Canceled, DeadlineExceeded}

\* Sequences over S of length at most n.
SeqUpTo(S, n) == UNION {[1..k -> S] : k \in 0..n}

\* No scanner operation called yet, and no result.
NoOp == [name |-> "none", n |-> 0, q |-> <<>>]
NoRet == [n |-> 0, rns |-> <<>>]

VARIABLES
    \* context: the Err() of the context the lexer and the parser share
    \* (NoErr while it is not done), and whether the caller cancelled its own.
    ctxErr, callerCancelled,
    \* CustomLexer fields.
    l_buf, l_state, l_err,
    \* The caller of NextToken: where it is, the token NextToken last
    \* returned (t), and every token NextToken returned so far (out).
    lexPc, t, out,
    \* NextToken's local err: the error the last Run returned.
    runErr,
    \* History: tokens allocated, and whether the lexer ended the stream
    \* because the caller cancelled while the parser was still at work.
    nextRef, cutShort,
    \* The reader l.r: the runes of the input, the error the reader reports
    \* once they are used up (io.EOF or a failure), and the runes consumed.
    input, termErr, rd,
    \* CustomLexer fields: l.pos, l.cursor, and the builder l.b.
    pos, cursor, b,
    \* The scanner operation called last and what it returned.
    lastOp, opRet,
    \* tokenChan fields and the channel's capacity.
    c, chanCap, tc_err,
    \* Parser fields.
    stateStack, p_next, p_token,
    \* The parsing goroutine: where it is, whether the pending token request
    \* is a Peek or a Next, and the tokens it received from the channel.
    parsePc, callKind, recvd,
    \* LexParse locals and its result.
    lexErr, parseErr, lpPc, retErr,
    \* The parse tree: every Node allocated so far (a node is its index, 0 is
    \* nil), the Parser fields p.root and p.node, and the tree operation
    \* called last with what it returned.
    nodes, p_root, p_node, treeOp,
    \* A Parser used on its own: the tokens its token source has yet to
    \* return, the states Parse ran so far, the arguments of the last
    \* PushState call, the last Peek or Next call with the token it
    \* returned, and the root Parse returned.
    src, ran, pushed, pcall, retRoot,
    \* ... and the error the state run last returned.
    stateErr,
    \* A ScanningLexer: what its scanner l.s has yet to find (rest) and
    \* reports at the end of the input (endErrs), the field l.err, and as
    \* history the calls of Scan and of NextToken, the token NextToken last
    \* returned and every error the scanner reported.
    sl

ctxVars == <<ctxErr, callerCancelled>>
scanVars == <<input, termErr, rd, pos, cursor, b, lastOp, opRet>>
lexVars == <<l_buf, l_state, l_err, lexPc, t, out, runErr, nextRef, cutShort,
             scanVars>>
chanVars == <<c, chanCap, tc_err>>
parseVars == <<stateStack, p_next, p_token, parsePc, callKind, recvd>>
lpVars == <<lexErr, parseErr, lpPc, retErr>>
treeVars == <<nodes, p_root, p_node, treeOp>>
soloVars == <<src, ran, pushed, pcall, retRoot, stateErr>>
slVars == <<sl>>
vars == <<ctxVars, lexVars, chanVars, parseVars, lpVars, treeVars, soloVars,
          slVars>>

(***************************************************************************)
(* CustomLexer                                                             *)
(***************************************************************************)

\* setErr: the first error wins, io.EOF is never recorded.
setErr_mut_recordEOF(cur, e) == IF cur = NoErr THEN e ELSE cur
setErr(cur, e) == IF cur = NoErr /\ e # EOFErr THEN e ELSE cur

\* Err returns l.err as it is.
Err == l_err

\* Pos, Cursor, Token and Width, lines 227-246.
Pos == pos
Cursor == cursor
Token == b
Width == pos.Offset - cursor.Offset

\* Position{}: the zero value, and the position NewCustomLexer starts from.
ZeroPos == [Offset |-> 0, Line |-> 0, Column |-> 0]
StartPos == [Offset |-> 0, Line |-> 1, Column |-> 1]

\* A nil *Token, and the empty token &lexer.Token{} the lexing goroutine
\* starts from; neither is a token the lexer allocated.
NilToken ==
    [Type |-> 0, ref |-> -2, Value |-> <<>>, Start |-> ZeroPos, End |-> ZeroPos]
emptyToken ==
    [Type |-> 0, ref |-> -1, Value |-> <<>>, Start |-> ZeroPos, End |-> ZeroPos]

\* newToken allocates a token from the builder, the cursor and the read
\* position; ref stands for the pointer's identity.
newToken_mut_startAtPos(typ, ref) ==
    [Type |-> typ, ref |-> ref, Value |-> b, Start |-> pos, End |-> pos]
newToken(typ, ref) ==
    [Type |-> typ, ref |-> ref, Value |-> b, Start |-> cursor, End |-> pos]

\* Emit called k times running: a no-op once an error is recorded, otherwise
\* each call appends a new token to buf.
RECURSIVE Emit(_, _, _, _)
Emit_mut_skipEmpty(buf, err, typs, ref) ==
    IF typs = <<>> \/ err # NoErr \/ cursor = pos THEN buf
    ELSE Append(buf, newToken(Head(typs), ref))
Emit(buf, err, typs, ref) ==
    IF typs = <<>> \/ err # NoErr THEN buf
    ELSE Emit(Append(buf, newToken(Head(typs), ref)), err, Tail(typs), ref + 1)

\* The buffer after NextToken took its head: an EOF token is never removed.
Dequeue_mut_always(buf) == Tail(buf)
Dequeue(buf) == IF Head(buf).Type # TokenTypeEOF THEN Tail(buf) ELSE buf

\* What one LexState.Run can do that the runtime sees: the Emit calls it
\* makes, whether a scanner operation then recorded a reader error, and the
\* (next state, error) it returns.
RunErrs == {NoErr, EOFErr, errState, Canceled}
RunOutcomes ==
    [emits : SeqUpTo(TokenTypes, MaxTokens), scanErr : BOOLEAN,
     next : LexStates \cup {Nil}, err : RunErrs]

\* NextToken returns tok to its caller, which continues at ret.
NextTokenReturn(tok, ret) ==
    /\ t' = tok
    /\ out' = Append(out, tok)
    /\ lexPc' = ret

\* The loop's condition, line 278.
LoopCond_mut_nobuf(buf, state) == state # Nil
LoopCond(buf, state) == Len(buf) = 0 /\ state # Nil

\* NextToken is past its first check (lines 273-275) and at the loop's test:
\* it was just called with no error recorded, or it is between two states.
NextTokenAtLoop_mut_nocheck == lexPc = "loop" \/ lexPc = "call"
NextTokenAtLoop == lexPc = "loop" \/ (lexPc = "call" /\ l_err = NoErr)

\* Lines 296-308, after the loop: return the head of the buffer, or record
\* io.EOF and return EOF when nothing is buffered and no state is left.
NextTokenAfterLoop_mut_lifo(buf, ref, ret) ==
    IF Len(buf) > 0
    THEN /\ NextTokenReturn(buf[Len(buf)], ret)
         /\ l_buf' = SubSeq(buf, 1, Len(buf) - 1)
         /\ l_err' = l_err
         /\ nextRef' = ref
    ELSE /\ NextTokenReturn(newToken(TokenTypeEOF, ref), ret)
         /\ l_buf' = buf
         /\ l_err' = EOFErr
         /\ nextRef' = ref + 1
NextTokenAfterLoop(buf, ref, ret) ==
    IF Len(buf) > 0
    THEN /\ NextTokenReturn(Head(buf), ret)
         /\ l_buf' = Dequeue(buf)
         /\ l_err' = l_err
         /\ nextRef' = ref
    ELSE /\ NextTokenReturn(newToken(TokenTypeEOF, ref), ret)
         /\ l_buf' = buf
         /\ l_err' = EOFErr
         /\ nextRef' = ref + 1

\* Lines 281-286: the context is done, record its error and return EOF.
NextTokenCtxDone(ret) ==
    /\ NextTokenAtLoop
    /\ LoopCond(l_buf, l_state)
    /\ ctxErr # NoErr
    /\ l_err' = setErr(l_err, ctxErr)
    /\ NextTokenReturn(newToken(TokenTypeEOF, nextRef), ret)
    /\ nextRef' = nextRef + 1
    /\ cutShort' = (cutShort \/ (callerCancelled /\ parsePc \notin {"cancel", "done"}))
    /\ UNCHANGED <<l_buf, l_state, runErr, scanVars>>

\* The error recorded once a Run with outcome o has returned: the reader's
\* error if a scanner operation recorded one, then setErr(err), line 290.
ErrAfterRun_mut_drop(cur, o) == IF o.scanErr THEN setErr(cur, errRead) ELSE cur
ErrAfterRun(cur, o) ==
    setErr(IF o.scanErr THEN setErr(cur, errRead) ELSE cur, o.err)

\* Lines 288-293: the current state has run, with outcome o. With an error
\* recorded afterwards return EOF; otherwise test the loop's condition again
\* and either stay in the loop or leave it and return.
NextTokenRan(o, ret) ==
    /\ nextRef + Len(o.emits) <= MaxTokens
    /\ runErr' = o.err
    /\ l_state' = o.next
    /\ LET buf == Emit(l_buf, l_err, o.emits, nextRef)
           err == ErrAfterRun(l_err, o)
           ref == nextRef + Len(o.emits)
       IN  IF err # NoErr
           THEN /\ NextTokenReturn(newToken(TokenTypeEOF, ref), ret)
                /\ l_buf' = buf
                /\ l_err' = err
                /\ nextRef' = ref + 1
           ELSE IF LoopCond(buf, o.next)
           THEN /\ lexPc' = "loop"
                /\ l_buf' = buf
                /\ l_err' = err
                /\ nextRef' = ref
                /\ UNCHANGED <<t, out>>
           ELSE NextTokenAfterLoop(buf, ref, ret)
    /\ UNCHANGED <<cutShort, scanVars>>

\* Lines 278-293: in the loop, with the context not done, run the current
\* state.
NextTokenRun(o, ret) ==
    /\ NextTokenAtLoop
    /\ LoopCond(l_buf, l_state)
    /\ ctxErr = NoErr
    /\ NextTokenRan(o, ret)

\* NextToken returns without running a state. Lines 273-275: called with
\* an error recorded, it returns EOF at once. Lines 278 and 296-308: with a
\* token buffered or with no state left, it does not enter the loop.
NextTokenNoRun(ret) ==
    IF lexPc = "call" /\ l_err # NoErr
    THEN /\ NextTokenReturn(newToken(TokenTypeEOF, nextRef), ret)
         /\ nextRef' = nextRef + 1
         /\ UNCHANGED <<l_buf, l_state, l_err, runErr, cutShort, scanVars>>
    ELSE /\ NextTokenAtLoop
         /\ ~LoopCond(l_buf, l_state)
         /\ NextTokenAfterLoop(l_buf, nextRef, ret)
         /\ UNCHANGED <<l_state, runErr, cutShort, scanVars>>

\* NewCustomLexer: nothing buffered, the starting state, no error.
InitLexer ==
    /\ l_buf = <<>>
    /\ l_state \in LexStates \cup {Nil}
    /\ l_err = NoErr
    /\ lexPc = "call"
    /\ t = emptyToken
    /\ out = <<>>
    /\ nextRef = 0
    /\ runErr = NoErr
    /\ cutShort = FALSE

\* The caller of the lexer cancels the context it passed.
CallerCancel(cause) ==
    /\ ~callerCancelled
    /\ callerCancelled' = TRUE
    /\ ctxErr' = IF ctxErr = NoErr THEN cause ELSE ctxErr

InitCtx ==
    /\ ctxErr = NoErr
    /\ callerCancelled = FALSE

\* The scanner of a lexer whose states are opaque: nothing to read, nothing
\* read.
IdleScanner ==
    /\ input = <<>>
    /\ termErr = EOFErr
    /\ rd = 0
    /\ pos = StartPos
    /\ cursor = StartPos
    /\ b = <<>>
    /\ lastOp = NoOp
    /\ opRet = NoRet

\* The driver's variables, at rest while the lexer is used alone.
IdleDriver ==
    /\ c = <<>>
    /\ chanCap = 0
    /\ tc_err = NoErr
    /\ stateStack = <<>>
    /\ p_next = NilToken
    /\ p_token = NilToken
    /\ parsePc = "idle"
    /\ callKind = "none"
    /\ recvd = <<>>
    /\ lexErr = NoErr
    /\ parseErr = NoErr
    /\ lpPc = "idle"
    /\ retErr = NoErr

\* NewParser, lines 122-140: the tree is a root node with the zero value, no
\* parent and no children, at position (0, 1, 1), and it is the current
\* node.
NoValue == ""
NewRoot == [Parent |-> 0, Children |-> <<>>, Value |-> NoValue, Start |-> StartPos]
NoTreeOp == [name |-> "none", v |-> NoValue, n |-> 0, val |-> NoValue, after |-> "none"]
InitTree ==
    /\ nodes = <<NewRoot>>
    /\ p_root = 1
    /\ p_node = 1
    /\ treeOp = NoTreeOp

\* ScanningLexer, lines 60-61: no error recorded (l.err == nil); an error
\* is the message the scanner reported and the Scan during which it did,
\* which stands for the position in the error's text.
NoScanErr == [at |-> 0, msg |-> ""]
\* No token returned yet.
NoScanToken == [Type |-> 0, Value |-> 0]
\* A ScanningLexer over an empty input, not called.
NoScanning ==
    [rest |-> <<>>, endErrs |-> <<>>, err |-> NoScanErr, scans |-> 0,
     calls |-> 0, tok |-> NoScanToken, reported |-> <<>>]
IdleScanning == sl = NoScanning

\* The variables of a Parser used on its own, at rest.
NoCall == [kind |-> "none", tok |-> NilToken]
IdleSolo ==
    /\ src = <<>>
    /\ ran = <<>>
    /\ pushed = <<>>
    /\ pcall = NoCall
    /\ retRoot = 0
    /\ stateErr = NoErr

(***************************************************************************)
(* SpecLex: a CustomLexer whose NextToken is called again and again, also  *)
(* after it returned EOF, under a context that may be cancelled any time.  *)
(***************************************************************************)
InitLex == InitCtx /\ IdleScanning /\ InitLexer /\ IdleScanner /\ IdleDriver /\ InitTree /\ IdleSolo

LexCancel ==
    /\ \E cause \in CancelCauses : CallerCancel(cause)
    /\ UNCHANGED slVars
    /\ UNCHANGED <<lexVars, chanVars, parseVars, lpVars>>
    /\ UNCHANGED <<treeVars, soloVars>>

\* The caller calls NextToken unless it has made MaxCalls calls already.
MayCall == lexPc = "call" => Len(out) < MaxCalls

LexCtxDone ==
    /\ MayCall
    /\ NextTokenCtxDone("call")
    /\ UNCHANGED <<slVars, ctxVars, chanVars, parseVars, lpVars>>
    /\ UNCHANGED <<treeVars, soloVars>>

LexRun ==
    /\ MayCall
    /\ \E o \in RunOutcomes : NextTokenRun(o, "call")
    /\ UNCHANGED <<slVars, ctxVars, chanVars, parseVars, lpVars>>
    /\ UNCHANGED <<treeVars, soloVars>>

LexNoRun ==
    /\ MayCall
    /\ NextTokenNoRun("call")
    /\ UNCHANGED <<slVars, ctxVars, chanVars, parseVars, lpVars>>
    /\ UNCHANGED <<treeVars, soloVars>>

NextLex == LexCancel \/ LexCtxDone \/ LexRun \/ LexNoRun

SpecLex == InitLex /\ [][NextLex]_vars

(***************************************************************************)
(* The scanner operations of CustomLexer, as functions of the scanner's    *)
(* fields [rd, pos, cursor, b, err]; each returns the fields after the     *)
(* call (s) and the call's result.                                         *)
(***************************************************************************)
Min(x, y) == IF x < y THEN x ELSE y
Max(x, y) == IF x < y THEN y ELSE x

\* The runes of the model's inputs, and the rune EOF (-1 in the code).
Newline == "\n"
Chars == {"a", Newline}
EOF == "EOF"

\* The reader l.r, by the contract of a buffered rune reader: what is left
\* to read after r runes; Peek(n) and Discard(n) fall short, with the
\* reader's error, when fewer than n runes are left; ReadRune; and Buffered,
\* the part of what is left that is in the buffer when it holds k runes.
Remaining(r) == SubSeq(input, r + 1, Len(input))
rPeek(r, n) ==
    [rns |-> SubSeq(Remaining(r), 1, Min(n, Len(Remaining(r)))),
     err |-> IF n > Len(Remaining(r)) THEN termErr ELSE NoErr]
rDiscard(r, n) ==
    [d |-> Min(n, Len(Remaining(r))),
     err |-> IF n > Len(Remaining(r)) THEN termErr ELSE NoErr]
rReadRune(r) ==
    IF Len(Remaining(r)) = 0 THEN [rn |-> EOF, err |-> termErr]
    ELSE [rn |-> Remaining(r)[1], err |-> NoErr]
rBuffered(r, k) == Min(k, Len(Remaining(r)))

\* The scanner's fields in the current state.
Scanner == [rd |-> rd, pos |-> pos, cursor |-> cursor, b |-> b, err |-> l_err]

\* The position counters after the runes rns: a newline starts a new line,
\* any other rune moves one column on (lines 259-264 and 395-407).
RECURSIVE advancePos(_, _)
advancePos_mut_noColumnReset(p, rns) ==
    IF rns = <<>> THEN p
    ELSE advancePos(
             IF Head(rns) = Newline
             THEN [Offset |-> p.Offset + 1, Line |-> p.Line + 1, Column |-> p.Column + 1]
             ELSE [Offset |-> p.Offset + 1, Line |-> p.Line, Column |-> p.Column + 1],
             Tail(rns))
advancePos(p, rns) ==
    IF rns = <<>> THEN p
    ELSE advancePos(
             IF Head(rns) = Newline
             THEN [Offset |-> p.Offset + 1, Line |-> p.Line + 1, Column |-> 1]
             ELSE [Offset |-> p.Offset + 1, Line |-> p.Line, Column |-> p.Column + 1],
             Tail(rns))

\* NextRune, lines 250-267.
NextRune_mut_noWrite(s) ==
    IF s.err # NoErr THEN [s |-> s, rn |-> EOF]
    ELSE LET r == rReadRune(s.rd) IN
         IF r.err # NoErr
         THEN [s |-> [s EXCEPT !.err = setErr(s.err, r.err)], rn |-> EOF]
         ELSE [s |-> [s EXCEPT !.rd = s.rd + 1,
                               !.pos = advancePos(s.pos, <<r.rn>>)],
               rn |-> r.rn]
NextRune(s) ==
    IF s.err # NoErr THEN [s |-> s, rn |-> EOF]
    ELSE LET r == rReadRune(s.rd) IN
         IF r.err # NoErr
         THEN [s |-> [s EXCEPT !.err = setErr(s.err, r.err)], rn |-> EOF]
         ELSE [s |-> [s EXCEPT !.rd = s.rd + 1,
                               !.pos = advancePos(s.pos, <<r.rn>>),
                               !.b = Append(s.b, r.rn)],
               rn |-> r.rn]

\* PeekN, lines 324-332, and Peek, lines 313-319.
PeekN(s, n) ==
    IF s.err # NoErr THEN [s |-> s, rns |-> <<>>]
    ELSE LET p == rPeek(s.rd, n) IN
         [s |-> [s EXCEPT !.err = setErr(s.err, p.err)], rns |-> p.rns]
Peek_mut_consume(s) == NextRune(s)
Peek(s) ==
    LET p == PeekN(s, 1) IN
    [s |-> p.s, rn |-> IF Len(p.rns) < 1 THEN EOF ELSE p.rns[1]]

\* Ignore, lines 515-518.
Ignore_mut_keepText(s) == [s EXCEPT !.cursor = s.pos]
Ignore(s) == [s EXCEPT !.cursor = s.pos, !.b = <<>>]

\* advance, lines 372-422: the loop, with k runes buffered by the reader.
minSize == 16
RECURSIVE advanceLoop(_, _, _, _, _)
advanceLoop(s, n, discard, k, advanced) ==
    IF n <= 0 THEN [s |-> s, n |-> advanced]
    ELSE
    LET buffered == rBuffered(s.rd, k)
        toRead0 == IF n < buffered THEN n ELSE buffered
        toRead == IF toRead0 = 0 THEN (IF minSize < n THEN minSize ELSE n)
                  ELSE toRead0
        p == rPeek(s.rd, toRead)
    IN  IF p.err # NoErr /\ p.err # EOFErr
        THEN [s |-> [s EXCEPT !.err = setErr(s.err, p.err)], n |-> advanced]
        ELSE
        LET dr == rDiscard(s.rd, Len(p.rns))
            s1 == [s EXCEPT !.rd = s.rd + dr.d,
                            !.pos = advancePos(s.pos, SubSeq(p.rns, 1, dr.d)),
                            !.b = IF discard THEN s.b ELSE s.b \o p.rns]
        IN  IF dr.err # NoErr
            THEN [s |-> [s1 EXCEPT !.err = setErr(s1.err, dr.err)],
                  n |-> advanced + dr.d]
            ELSE IF p.err # NoErr
            THEN [s |-> [s1 EXCEPT !.err = setErr(s1.err, p.err)],
                  n |-> advanced + dr.d]
            ELSE advanceLoop(s1, n - dr.d, discard, k, advanced + dr.d)

\* advance, lines 360-367: nothing happens with an error recorded; with
\* discard set, Ignore runs when advance returns, however it returns.
advance_mut_noErrCheck(s, n, discard, k) ==
    LET r == advanceLoop(s, n, discard, k, 0) IN
    IF discard THEN [s |-> Ignore(r.s), n |-> r.n] ELSE r
advance(s, n, discard, k) ==
    IF s.err # NoErr THEN [s |-> s, n |-> 0]
    ELSE LET r == advanceLoop(s, n, discard, k, 0) IN
         IF discard THEN [s |-> Ignore(r.s), n |-> r.n] ELSE r

\* AdvanceN and DiscardN, lines 342-344 and 354-356.
AdvanceN(s, n, k) == advance(s, n, FALSE, k)
DiscardN(s, n, k) == advance(s, n, TRUE, k)

\* strings.HasPrefix(string(rns), cand).
HasPrefix(rns, cand) ==
    Len(cand) <= Len(rns) /\ SubSeq(rns, 1, Len(cand)) = cand

\* The length of the longest of the search strings q.
RECURSIVE maxLen(_)
maxLen(q) == IF q = <<>> THEN 0 ELSE Max(Len(Head(q)), maxLen(Tail(q)))

\* The first of the search strings q that rns starts with, <<>> if none does
\* (the loops over j at lines 450-454 and 485-495).
RECURSIVE firstPrefix(_, _)
firstPrefix_mut_exact(rns, q) ==
    IF q = <<>> THEN [found |-> FALSE, c |-> <<>>]
    ELSE IF rns = Head(q) THEN [found |-> TRUE, c |-> Head(q)]
    ELSE firstPrefix(rns, Tail(q))
firstPrefix(rns, q) ==
    IF q = <<>> THEN [found |-> FALSE, c |-> <<>>]
    ELSE IF HasPrefix(rns, Head(q)) THEN [found |-> TRUE, c |-> Head(q)]
    ELSE firstPrefix(rns, Tail(q))

\* Find, lines 429-458.
RECURSIVE findLoop(_, _)
findLoop(s, q) ==
    LET p == PeekN(s, maxLen(q)) IN
    IF Len(p.rns) = 0 THEN [s |-> p.s, c |-> <<>>]
    ELSE LET m == firstPrefix(p.rns, q) IN
         IF m.found THEN [s |-> p.s, c |-> m.c]
         ELSE findLoop(NextRune(p.s).s, q)
Find(s, q) == IF maxLen(q) = 0 THEN [s |-> s, c |-> <<>>] ELSE findLoop(s, q)

\* DiscardTo, lines 484-496: the first offset i into the peeked runes rns at
\* which the window rns[i:i+m] starts with one of the search strings.
RECURSIVE matchAt(_, _, _, _)
matchAt(rns, q, m, i) ==
    IF i >= Len(rns) - m + 1 THEN [found |-> FALSE, i |-> i, c |-> <<>>]
    ELSE LET w == firstPrefix(SubSeq(rns, i + 1, i + m), q) IN
         IF w.found THEN [found |-> TRUE, i |-> i, c |-> w.c]
         ELSE matchAt(rns, q, m, i + 1)

\* DiscardTo, lines 464-511, with k runes buffered by the reader.
RECURSIVE discardToLoop(_, _, _)
discardToLoop(s, q, k) ==
    LET m == maxLen(q)
        bufS == Max(rBuffered(s.rd, k), m)
        p == PeekN(s, bufS)
        w == matchAt(p.rns, q, m, 0)
        toDiscard == IF Len(p.rns) - m + 1 <= 0 THEN 1 ELSE Len(p.rns) - m + 1
    IN  IF w.found
        THEN LET r == advance(p.s, w.i, TRUE, k) IN
             IF r.n < w.i THEN [s |-> r.s, c |-> <<>>] ELSE [s |-> r.s, c |-> w.c]
        ELSE LET r == advance(p.s, toDiscard, TRUE, k) IN
             IF r.n < toDiscard THEN [s |-> r.s, c |-> <<>>]
             ELSE discardToLoop(r.s, q, k)
DiscardTo(s, q, k) ==
    IF maxLen(q) = 0 THEN [s |-> s, c |-> <<>>] ELSE discardToLoop(s, q, k)

(***************************************************************************)
(* SpecScan: a CustomLexer over some input whose scanner operations are    *)
(* called one after another, in any order with any arguments, as a state   *)
(* (or a test) calls them.                                                 *)
(***************************************************************************)
\* The inputs: up to MaxInput runes, read from a reader that ends with
\* io.EOF or fails with errRead once they are used up.
Inputs == SeqUpTo(Chars, MaxInput)
\* The counts passed to PeekN, AdvanceN and DiscardN, and the number of runes
\* the reader may have buffered.
Counts == 0..(MaxInput + 1)
BufferedCounts == 0..MaxInput
\* The search strings passed to Find and DiscardTo.
Queries ==
    {<<>>,
     <<<<Newline>>>>,
     <<<<"a", Newline>>, <<Newline>>>>,
     <<<<"a", "a">>, <<Newline>>>>,
     <<<<>>, <<Newline>>>>}

\* NewCustomLexer over a reader, lines 200-224.
InitScanner ==
    /\ input \in Inputs
    /\ termErr \in {EOFErr, errRead}
    /\ rd = 0
    /\ pos = StartPos
    /\ cursor = StartPos
    /\ b = <<>>
    /\ lastOp = NoOp
    /\ opRet = NoRet

\* A scanner operation is called while no NextToken is in progress or from
\* inside a running state; s is the scanner after it.
ScanCall(s, name, n, q, rn, rns) ==
    /\ lexPc \in {"call", "run"}
    /\ rd' = s.rd
    /\ pos' = s.pos
    /\ cursor' = s.cursor
    /\ b' = s.b
    /\ l_err' = s.err
    /\ lastOp' = [name |-> name, n |-> n, q |-> q]
    /\ opRet' = [n |-> rn, rns |-> rns]
    /\ UNCHANGED <<input, termErr>>
    /\ UNCHANGED <<l_state, lexPc, t, out, runErr, cutShort>>
    /\ UNCHANGED <<slVars, ctxVars, chanVars, parseVars, lpVars>>
    /\ UNCHANGED <<treeVars, soloVars>>

ScanNextRune ==
    /\ LET r == NextRune(Scanner) IN ScanCall(r.s, "NextRune", 0, <<>>, 0, <<r.rn>>)
    /\ UNCHANGED <<l_buf, nextRef>>

ScanPeek ==
    /\ LET r == Peek(Scanner) IN ScanCall(r.s, "Peek", 0, <<>>, 0, <<r.rn>>)
    /\ UNCHANGED <<l_buf, nextRef>>

ScanPeekN(n) ==
    /\ LET r == PeekN(Scanner, n) IN ScanCall(r.s, "PeekN", n, <<>>, Len(r.rns), r.rns)
    /\ UNCHANGED <<l_buf, nextRef>>

ScanAdvanceN(n, k) ==
    /\ LET r == AdvanceN(Scanner, n, k) IN ScanCall(r.s, "AdvanceN", n, <<>>, r.n, <<>>)
    /\ UNCHANGED <<l_buf, nextRef>>

ScanDiscardN(n, k) ==
    /\ LET r == DiscardN(Scanner, n, k) IN ScanCall(r.s, "DiscardN", n, <<>>, r.n, <<>>)
    /\ UNCHANGED <<l_buf, nextRef>>

ScanFind(q) ==
    /\ LET r == Find(Scanner, q) IN ScanCall(r.s, "Find", 0, q, Len(r.c), r.c)
    /\ UNCHANGED <<l_buf, nextRef>>

ScanDiscardTo(q, k) ==
    /\ LET r == DiscardTo(Scanner, q, k) IN ScanCall(r.s, "DiscardTo", 0, q, Len(r.c), r.c)
    /\ UNCHANGED <<l_buf, nextRef>>

ScanIgnore ==
    /\ ScanCall(Ignore(Scanner), "Ignore", 0, <<>>, 0, <<>>)
    /\ UNCHANGED <<l_buf, nextRef>>

\* Emit, lines 523-534: nothing happens with an error recorded; otherwise a
\* new token is queued and Ignore is called. The result is the token's
\* Value, and 1 if a token was returned, 0 if nil was.
ScanEmit(typ) ==
    /\ nextRef < MaxTokens
    /\ lexPc = "call" => Len(l_buf) < MaxQueued
    /\ l_buf' = Emit(l_buf, l_err, <<typ>>, nextRef)
    /\ IF l_err # NoErr
       THEN /\ ScanCall(Scanner, "Emit", typ, <<>>, 0, <<>>)
            /\ UNCHANGED nextRef
       ELSE /\ ScanCall(Ignore(Scanner), "Emit", typ, <<>>, 1, b)
            /\ nextRef' = nextRef + 1

InitScan ==
    /\ InitCtx /\ IdleScanning /\ InitLexer /\ l_state # Nil /\ InitScanner /\ IdleDriver
    /\ InitTree /\ IdleSolo

NextScan ==
    \/ ScanNextRune
    \/ ScanPeek
    \/ \E n \in Counts : ScanPeekN(n)
    \/ \E n \in Counts, k \in BufferedCounts : ScanAdvanceN(n, k)
    \/ \E n \in Counts, k \in BufferedCounts : ScanDiscardN(n, k)
    \/ \E q \in Queries : ScanFind(q)
    \/ \E q \in Queries, k \in BufferedCounts : ScanDiscardTo(q, k)
    \/ ScanIgnore
    \/ \E typ \in TokenTypes : ScanEmit(typ)

SpecScan == InitScan /\ [][NextScan]_vars

(***************************************************************************)
(* SpecRun: NextToken called again and again on a CustomLexer over some    *)
(* input; a running state calls scanner operations one after another and   *)
(* then returns.                                                           *)
(***************************************************************************)
\* NextToken is called unless MaxRunCalls calls have returned already.
MayCallRun == lexPc = "call" => Len(out) < MaxRunCalls

RunCancel ==
    /\ \E cause \in CancelCauses : CallerCancel(cause)
    /\ UNCHANGED slVars
    /\ UNCHANGED <<lexVars, chanVars, parseVars, lpVars>>
    /\ UNCHANGED <<treeVars, soloVars>>

RunCtxDone ==
    /\ MayCallRun
    /\ NextTokenCtxDone("call")
    /\ UNCHANGED <<slVars, ctxVars, chanVars, parseVars, lpVars>>
    /\ UNCHANGED <<treeVars, soloVars>>

RunNoRun ==
    /\ MayCallRun
    /\ NextTokenNoRun("call")
    /\ UNCHANGED <<slVars, ctxVars, chanVars, parseVars, lpVars>>
    /\ UNCHANGED <<treeVars, soloVars>>

\* Line 289: in the loop, with the context not done, l.state.Run is called.
RunBegin ==
    /\ MayCallRun
    /\ NextTokenAtLoop
    /\ LoopCond(l_buf, l_state)
    /\ ctxErr = NoErr
    /\ lexPc' = "run"
    /\ UNCHANGED <<l_buf, l_state, l_err, t, out, runErr, nextRef, cutShort,
                   scanVars>>
    /\ UNCHANGED <<slVars, ctxVars, chanVars, parseVars, lpVars>>
    /\ UNCHANGED <<treeVars, soloVars>>

\* The running state calls Advance(), Discard() or Emit: with nothing
\* buffered by the reader, advance(1, false) and advance(1, true).
RunAdvance ==
    /\ lexPc = "run"
    /\ ScanAdvanceN(1, 0)

RunDiscard ==
    /\ lexPc = "run"
    /\ ScanDiscardN(1, 0)

RunEmit ==
    /\ lexPc = "run"
    /\ \E typ \in TokenTypes : ScanEmit(typ)

\* The running state returns (next, err).
RunEnd ==
    /\ lexPc = "run"
    /\ \E next \in LexStates \cup {Nil}, err \in RunErrs :
          NextTokenRan([emits |-> <<>>, scanErr |-> FALSE,
                        next |-> next, err |-> err], "call")
    /\ UNCHANGED <<slVars, ctxVars, chanVars, parseVars, lpVars>>
    /\ UNCHANGED <<treeVars, soloVars>>

NextRun ==
    \/ RunCancel \/ RunCtxDone \/ RunNoRun \/ RunBegin
    \/ RunAdvance \/ RunDiscard \/ RunEmit \/ RunEnd

SpecRun == InitScan /\ [][NextRun]_vars

(***************************************************************************)
(* LexParse: the lexing goroutine, the parsing goroutine (Parser.Parse and *)
(* what a ParseState.Run can call), and the join.                          *)
(***************************************************************************)

\* stack.push and stack.pop: the top of the stack is the end of the slice.
push(s, v) == Append(s, v)
pop(s) == IF Len(s) = 0 THEN [v |-> Nil, rest |-> s]
          ELSE [v |-> s[Len(s)], rest |-> SubSeq(s, 1, Len(s) - 1)]

\* PushState pushes the listed states last to first.
RECURSIVE PushState(_, _)
PushState_mut_inOrder(s, states) ==
    IF states = <<>> THEN s
    ELSE PushState(push(s, Head(states)), Tail(states))
PushState(s, states) ==
    IF states = <<>> THEN s
    ELSE PushState(push(s, states[Len(states)]), SubSeq(states, 1, Len(states) - 1))

\* A receive from the channel takes the oldest value sent.
chanRecv_mut_lifo(ch) == [v |-> ch[Len(ch)], rest |-> SubSeq(ch, 1, Len(ch) - 1)]
chanRecv(ch) == [v |-> Head(ch), rest |-> Tail(ch)]

\* LexParse, lines 94-99: the lexer's error unless it is nil, cancellation or
\* io.EOF, and the parser's error otherwise.
ComposeErr_mut_parserFirst(le, pe) ==
    IF pe # NoErr THEN pe
    ELSE IF le = Canceled \/ le = EOFErr THEN NoErr ELSE le
ComposeErr_mut_reportCancel(le, pe) ==
    IF le = NoErr \/ le = EOFErr THEN pe ELSE le
ComposeErr(le, pe) ==
    IF le = NoErr \/ le = Canceled \/ le = EOFErr THEN pe ELSE le

\* The lexing goroutine, lines 75-83: t = lex.NextToken(ctx) ...
LexGoCtxDone ==
    /\ NextTokenCtxDone("send")
    /\ UNCHANGED <<slVars, ctxVars, chanVars, parseVars, lpVars>>
    /\ UNCHANGED <<treeVars, soloVars>>

LexGoRun ==
    /\ \E o \in RunOutcomes : NextTokenRun(o, "send")
    /\ UNCHANGED <<slVars, ctxVars, chanVars, parseVars, lpVars>>
    /\ UNCHANGED <<treeVars, soloVars>>

LexGoNoRun ==
    /\ NextTokenNoRun("send")
    /\ UNCHANGED <<slVars, ctxVars, chanVars, parseVars, lpVars>>
    /\ UNCHANGED <<treeVars, soloVars>>

\* ... tokens.c <- t, a send that waits while the channel is full, and the
\* loop's test: the goroutine goes on until it sent a token of type EOF.
LexGoSend_mut_dropEOF ==
    /\ lexPc = "send"
    /\ Len(c) < chanCap
    /\ c' = IF t.Type # TokenTypeEOF THEN Append(c, t) ELSE c
    /\ lexPc' = IF t.Type # TokenTypeEOF THEN "call" ELSE "exit"
    /\ UNCHANGED <<l_buf, l_state, l_err, t, out, runErr, nextRef, cutShort,
                   scanVars>>
    /\ UNCHANGED <<chanCap, tc_err>>
    /\ UNCHANGED <<slVars, ctxVars, parseVars, lpVars>>
    /\ UNCHANGED <<treeVars, soloVars>>
LexGoSend ==
    /\ lexPc = "send"
    /\ Len(c) < chanCap
    /\ c' = Append(c, t)
    /\ lexPc' = IF t.Type # TokenTypeEOF THEN "call" ELSE "exit"
    /\ UNCHANGED <<l_buf, l_state, l_err, t, out, runErr, nextRef, cutShort,
                   scanVars>>
    /\ UNCHANGED <<chanCap, tc_err>>
    /\ UNCHANGED <<slVars, ctxVars, parseVars, lpVars>>
    /\ UNCHANGED <<treeVars, soloVars>>

\* lexErr = lex.Err(); waitGrp.Done().
LexGoDone ==
    /\ lexPc = "exit"
    /\ lexErr' = Err
    /\ lexPc' = "done"
    /\ UNCHANGED <<l_buf, l_state, l_err, t, out, runErr, nextRef, cutShort,
                   scanVars>>
    /\ UNCHANGED <<parseErr, lpPc, retErr>>
    /\ UNCHANGED <<slVars, ctxVars, chanVars, parseVars>>
    /\ UNCHANGED <<treeVars, soloVars>>

\* Parse returns (root, e) to the parsing goroutine.
ParseReturn(e) ==
    /\ parseErr' = e
    /\ parsePc' = "cancel"

\* Parse, lines 175-189: pop a state; with none left Parse returns nil; with
\* the context done it returns the context's error without running the state.
ParsePop ==
    /\ parsePc = "pop"
    /\ LET r == pop(stateStack) IN
       /\ stateStack' = r.rest
       /\ IF r.v = Nil THEN ParseReturn(NoErr)
          ELSE IF ctxErr # NoErr THEN ParseReturn(ctxErr)
          ELSE parsePc' = "run" /\ UNCHANGED parseErr
    /\ UNCHANGED <<p_next, p_token, callKind, recvd>>
    /\ UNCHANGED <<lexErr, lpPc, retErr>>
    /\ UNCHANGED <<slVars, ctxVars, lexVars, chanVars>>
    /\ UNCHANGED <<treeVars, soloVars>>

\* The running state calls p.Peek (kind "Peek") or p.Next (kind "Next"). With
\* a token already peeked the call returns it; otherwise it calls
\* tokenChan.NextToken, which notes the context's error and then receives.
ParseCall(kind) ==
    /\ parsePc = "run"
    /\ IF p_next # NilToken
       THEN /\ kind = "Next"
            /\ p_token' = p_next
            /\ p_next' = NilToken
            /\ UNCHANGED <<parsePc, callKind, tc_err>>
       ELSE /\ tc_err' = IF ctxErr # NoErr THEN ctxErr ELSE tc_err
            /\ callKind' = kind
            /\ parsePc' = "recv"
            /\ UNCHANGED <<p_next, p_token>>
    /\ UNCHANGED <<stateStack, recvd>>
    /\ UNCHANGED <<c, chanCap>>
    /\ UNCHANGED <<slVars, ctxVars, lexVars, lpVars>>
    /\ UNCHANGED <<treeVars, soloVars>>

\* return <-tc.c: the receive waits while the channel is empty. Peek keeps
\* the token in p.next; Next clears p.next and makes it the current token.
ParseRecv ==
    /\ parsePc = "recv"
    /\ Len(c) > 0
    /\ LET r == chanRecv(c) IN
       /\ c' = r.rest
       /\ recvd' = Append(recvd, r.v)
       /\ IF callKind = "Peek"
          THEN p_next' = r.v /\ UNCHANGED p_token
          ELSE p_next' = NilToken /\ p_token' = r.v
    /\ parsePc' = "run"
    /\ callKind' = "none"
    /\ UNCHANGED <<stateStack, chanCap, tc_err>>
    /\ UNCHANGED <<slVars, ctxVars, lexVars, lpVars>>
    /\ UNCHANGED <<treeVars, soloVars>>

\* The running state calls p.PushState(states...).
ParsePushState(states) ==
    /\ parsePc = "run"
    /\ Len(stateStack) + Len(states) <= MaxStack
    /\ stateStack' = PushState(stateStack, states)
    /\ UNCHANGED <<p_next, p_token, parsePc, callKind, recvd>>
    /\ UNCHANGED <<slVars, ctxVars, lexVars, chanVars, lpVars>>
    /\ UNCHANGED <<treeVars, soloVars>>

\* Parse, lines 191-199: the state's Run returns e. nil: go round the loop;
\* io.EOF: Parse returns nil; any other error: Parse returns it.
ParseRunErrs == {NoErr, EOFErr, errParse}
ParseRunReturn(e) ==
    /\ parsePc = "run"
    /\ IF e = NoErr THEN parsePc' = "pop" /\ UNCHANGED parseErr
       ELSE IF e = EOFErr THEN ParseReturn(NoErr)
       ELSE ParseReturn(e)
    /\ UNCHANGED <<stateStack, p_next, p_token, callKind, recvd>>
    /\ UNCHANGED <<lexErr, lpPc, retErr>>
    /\ UNCHANGED <<slVars, ctxVars, lexVars, chanVars>>
    /\ UNCHANGED <<treeVars, soloVars>>

\* The parsing goroutine, lines 88-89: cancel(); waitGrp.Done().
ParseCancel ==
    /\ parsePc = "cancel"
    /\ ctxErr' = IF ctxErr = NoErr THEN Canceled ELSE ctxErr
    /\ parsePc' = "done"
    /\ UNCHANGED <<callerCancelled, slVars>>
    /\ UNCHANGED <<stateStack, p_next, p_token, callKind, recvd>>
    /\ UNCHANGED <<lexVars, chanVars, lpVars>>
    /\ UNCHANGED <<treeVars, soloVars>>

\* LexParse, lines 92-101: waitGrp.Wait() and the error returned.
LexParseReturn ==
    /\ lpPc = "wait"
    /\ lexPc = "done"
    /\ parsePc = "done"
    /\ retErr' = ComposeErr(lexErr, parseErr)
    /\ lpPc' = "returned"
    /\ UNCHANGED <<lexErr, parseErr>>
    /\ UNCHANGED <<slVars, ctxVars, lexVars, chanVars, parseVars>>
    /\ UNCHANGED <<treeVars, soloVars>>

\* The caller of LexParse cancels its context while LexParse runs.
LPCallerCancel ==
    /\ lpPc = "wait"
    /\ \E cause \in CancelCauses : CallerCancel(cause)
    /\ UNCHANGED slVars
    /\ UNCHANGED <<lexVars, chanVars, parseVars, lpVars>>
    /\ UNCHANGED <<treeVars, soloVars>>

\* LexParse up to the start of the two goroutines: a channel of some
\* capacity, NewParser with the starting state pushed.
InitLP ==
    /\ InitCtx /\ IdleScanning
    /\ InitLexer
    /\ IdleScanner
    /\ InitTree
    /\ IdleSolo
    /\ c = <<>>
    /\ chanCap \in 1..MaxChanCap
    /\ tc_err = NoErr
    /\ stateStack = PushState(<<>>, <<"parseState">>)
    /\ p_next = NilToken
    /\ p_token = NilToken
    /\ parsePc = "pop"
    /\ callKind = "none"
    /\ recvd = <<>>
    /\ lexErr = NoErr
    /\ parseErr = NoErr
    /\ lpPc = "wait"
    /\ retErr = NoErr

LexGo == LexGoCtxDone \/ LexGoRun \/ LexGoNoRun \/ LexGoSend \/ LexGoDone

ParseGo ==
    \/ ParsePop
    \/ \E kind \in {"Peek", "Next"} : ParseCall(kind)
    \/ ParseRecv
    \/ \E states \in SeqUpTo(ParseStates, 2) \ {<<>>} : ParsePushState(states)
    \/ \E e \in ParseRunErrs : ParseRunReturn(e)
    \/ ParseCancel

NextLP == LexGo \/ ParseGo \/ LexParseReturn \/ LPCallerCancel

SpecLP == InitLP /\ [][NextLP]_vars

(***************************************************************************)
(* Claims about CustomLexer (checked under SpecLex).                       *)
(***************************************************************************)
IsEOF(tok) == tok.Type = TokenTypeEOF

\* C7: NextToken always returns a token, and EOF is sticky: once a call
\* returned a token of type EOF, every later call returns a token of type
\* EOF, whichever way the first EOF came about (an error, cancellation, the
\* end of the state machine, or an EOF token a state emitted itself).
C7_EOFSticky ==
    \A i \in 1..Len(out) :
        /\ out[i].Type \in TokenTypes
        /\ \A j \in i..Len(out) : IsEOF(out[i]) => IsEOF(out[j])

\* C7 witness: a word, then an EOF token taken from the buffer (no error
\* recorded, a state still set), then EOF again on the next call.
C7_Witness ==
    /\ Len(out) >= 3
    /\ ~IsEOF(out[1]) /\ IsEOF(out[2]) /\ IsEOF(out[3])
    /\ l_err = NoErr
    /\ l_state # Nil

\* C8 (as the claim states it): Err() never returns io.EOF, so that after a
\* normal completion it returns nil.
C8_ErrNeverEOF == Err # EOFErr

\* A step in which NextToken runs the current state: it is at the loop with
\* the loop's condition true and the context not done, and the lexer moves.
StateRuns ==
    /\ NextTokenAtLoop
    /\ LoopCond(l_buf, l_state)
    /\ ctxErr = NoErr
    /\ <<l_buf, l_state, l_err, lexPc, out, runErr, nextRef>>'
           # <<l_buf, l_state, l_err, lexPc, out, runErr, nextRef>>

\* C9 (as the claim states it): once a state's Run returned io.EOF, no
\* further state is run, whatever next state came with the error.
C9_NoRunAfterEOF == [][runErr = EOFErr => ~StateRuns]_vars

\* C10: the step that records a non-EOF error returns an EOF token; from then
\* on the recorded error never changes, no state is run (the state, the
\* buffer and the last Run's result stay as they are), and every token
\* NextToken returns is of type EOF.
C10_ErrorSticky ==
    [][/\ (l_err = NoErr /\ l_err' \notin {NoErr, EOFErr})
            => (Len(out') = Len(out) + 1 /\ IsEOF(out'[Len(out')]))
       /\ l_err \notin {NoErr, EOFErr}
            => /\ l_err' = l_err
               /\ Err' = l_err
               /\ ~StateRuns
               /\ <<l_state, l_buf, runErr>>' = <<l_state, l_buf, runErr>>
               /\ out' # out => (Len(out') = Len(out) + 1 /\ IsEOF(out'[Len(out')]))
      ]_vars

\* C10 witness: a state failed with errState after a word had been returned
\* and with a token still queued; two calls have returned EOF since.
C10_Witness ==
    /\ l_err = errState
    /\ Len(out) >= 3
    /\ ~IsEOF(out[1]) /\ IsEOF(out[Len(out) - 1]) /\ IsEOF(out[Len(out)])
    /\ l_state # Nil
    /\ l_buf # <<>>

\* C11 (as the claim states it): a non-EOF token that a state emitted is
\* never left in the queue of a lexer that has recorded an error; such a
\* token is never returned, since from then on NextToken returns only EOF.
C11_QueuedTokenDelivered ==
    l_err # NoErr => \A i \in 1..Len(l_buf) : IsEOF(l_buf[i])

\* C11 (amended): while a token is queued and no error is recorded NextToken
\* neither looks at the context nor runs a state: it returns the head of the
\* queue, also when the context is done by then, and removes it from the
\* queue unless it is of type EOF.
C11_QueuedBeforeCancel ==
    [][(lexPc \in {"call", "loop"} /\ l_err = NoErr /\ l_buf # <<>>
           /\ lexVars' # lexVars)
          => /\ out' = Append(out, Head(l_buf))
             /\ l_err' = NoErr
             /\ l_buf' = IF IsEOF(Head(l_buf)) THEN l_buf ELSE Tail(l_buf)
      ]_vars

\* C11 witness: a state emitted two words; the first was returned, the second
\* is still queued, no error is recorded and the context is done.
C11_Witness ==
    /\ lexPc = "call"
    /\ ctxErr # NoErr
    /\ l_err = NoErr
    /\ Len(out) = 1 /\ ~IsEOF(out[1])
    /\ Len(l_buf) = 1 /\ ~IsEOF(l_buf[1])

(***************************************************************************)
(* Claims about LexParse (checked under SpecLP).                           *)
(***************************************************************************)
Last(s) == s[Len(s)]

\* C1 (as the claim states it): once the parser has returned, the lexing
\* goroutine is never left waiting to send into a full channel; such a wait
\* can never end, because nothing receives from the channel any more, and
\* LexParse then never gets past waitGrp.Wait().
C1_LexerNeverStuck ==
    ~(/\ parsePc = "done"
      /\ lexPc = "send"
      /\ Len(c) >= chanCap
      /\ lpPc = "wait")

\* C2 (as the claim states it): once the parser has received the EOF token,
\* a Peek or Next of a parse state never waits for a further token. A wait
\* with the channel empty and the lexing goroutine past its loop never ends.
C2_NoWaitAfterEOF ==
    ~(/\ parsePc = "recv"
      /\ \E i \in 1..Len(recvd) : IsEOF(recvd[i])
      /\ c = <<>>
      /\ lexPc \in {"exit", "done"})

\* C3 (as the claim states it): a run that the lexer cut short because the
\* caller cancelled the context while the parser was still at work never
\* ends with LexParse returning a nil error.
C3_CancelNeverNil ==
    (lpPc = "returned" /\ cutShort) => retErr # NoErr

\* C4 (as the claim states it): whenever the parser returned a non-nil error,
\* LexParse returns that parser error, also when the lexer failed too.
C4_ParserErrorPreferred ==
    (lpPc = "returned" /\ parseErr # NoErr) => retErr = parseErr

\* C4 (amended): LexParse prefers the lexer error: whenever the lexer
\* recorded an error that is neither context.Canceled nor io.EOF, LexParse
\* returns that lexer error, also when the parser failed too; the parser's
\* error (or nil) is returned only when the lexer's error is nil,
\* context.Canceled or io.EOF.
C4_LexerErrorPreferred ==
    lpPc = "returned" =>
        retErr = IF l_err \notin {NoErr, Canceled, EOFErr} THEN l_err ELSE parseErr

\* C4 witness: both sides failed and LexParse returned the lexer's error.
C4_Witness ==
    /\ lpPc = "returned"
    /\ l_err = errState
    /\ parseErr = errParse
    /\ retErr = errState

\* C5 (as the claim states it): when a lex state failed with errState,
\* LexParse returns errState.
C5_StateErrorReturned ==
    (lpPc = "returned" /\ runErr = errState) => retErr = errState

\* C5 (amended): when a lex state failed with errState and no scanner
\* operation recorded an error of the reader before that state returned,
\* LexParse returns errState, also when the parse state fails too.
C5_StateErrorReturnedUnlessReadError ==
    (lpPc = "returned" /\ runErr = errState /\ l_err # errRead)
        => retErr = errState

\* C5 witness: the lex state failed after a word was delivered, the parser
\* received the word and the resulting EOF token and failed with its own
\* error, and LexParse returned the lex state's error.
C5_Witness ==
    /\ lpPc = "returned"
    /\ runErr = errState
    /\ Len(recvd) >= 2
    /\ ~IsEOF(recvd[1])
    /\ IsEOF(Last(recvd))
    /\ parseErr = errParse
    /\ retErr = errState

\* C6: the tokens the parser received, then those in the channel, then the
\* one the lexing goroutine is about to send, are exactly the tokens
\* NextToken returned, in that order; a token of type EOF is the last the
\* parser can receive, and once the lexing goroutine is over and the channel
\* is drained the last token received is of type EOF.
C6_TokensInOrder ==
    /\ recvd \o c \o (IF lexPc = "send" THEN <<t>> ELSE <<>>) = out
    /\ \A i \in 1..Len(recvd) :
          IsEOF(recvd[i]) =>
              (i = Len(recvd) /\ c = <<>> /\ lexPc \in {"exit", "done"})
    /\ (lexPc \in {"exit", "done"} /\ c = <<>>) =>
          (recvd # <<>> /\ IsEOF(Last(recvd)))

\* C6 witness: the parser received two words and then the EOF token, after
\* two tokens had been waiting in the channel together.
C6_Witness ==
    /\ Len(recvd) = 3
    /\ ~IsEOF(recvd[1]) /\ ~IsEOF(recvd[2]) /\ IsEOF(recvd[3])
    /\ chanCap >= 2

(***************************************************************************)
(* Claims about the scanner (checked under SpecScan and SpecRun).          *)
(***************************************************************************)
\* A step in which Emit is called with no error recorded: a token is
\* allocated while NextToken returns nothing.
EmitStep == nextRef' # nextRef /\ out' = out /\ lexPc' = lexPc

\* C12: Emit(typ) with no error recorded appends to the queue, and returns, a
\* token of type typ whose Value is the token text, whose Start is the token
\* cursor and whose End is the read position at the time of the call;
\* afterwards the token text is empty, Width() is 0 and the cursor is the
\* read position, which has not moved.
C12_EmitToken ==
    [][EmitStep =>
          /\ Len(l_buf') = Len(l_buf) + 1
          /\ SubSeq(l_buf', 1, Len(l_buf)) = l_buf
          /\ LET tok == l_buf'[Len(l_buf')] IN
             /\ tok.Type = lastOp'.n
             /\ tok.Value = Token
             /\ tok.Start = Cursor
             /\ tok.End = Pos
             /\ opRet' = [n |-> 1, rns |-> tok.Value]
          /\ Token' = <<>>
          /\ Width' = 0
          /\ Cursor' = Pos'
          /\ Pos' = Pos
      ]_vars

\* C12 witness: Emit was called after two runes were consumed, the first of
\* them a newline, and queued a token holding both.
C12_Witness ==
    /\ lastOp.name = "Emit"
    /\ Len(l_buf) = 1
    /\ Len(l_buf[1].Value) = 2
    /\ l_buf[1].Start = StartPos
    /\ l_buf[1].End = [Offset |-> 2, Line |-> 2, Column |-> 2]
    /\ Token = <<>>
    /\ Cursor = Pos

\* C13 (as the claim states it): an Emit called with the cursor at the read
\* position and no token text adds nothing to the queue, and NextToken never
\* returns a non-EOF token of zero width.
C13_ZeroWidthEmitNoOp ==
    [][/\ (EmitStep /\ Width = 0 /\ Token = <<>>) => l_buf' = l_buf
       /\ \A i \in 1..Len(out') :
             ~IsEOF(out'[i]) => out'[i].Start # out'[i].End
      ]_vars

\* C13 (amended): an Emit called with no error recorded, the cursor at the
\* read position and no token text queues one token with an empty Value
\* whose Start and End are the read position, and leaves the scanner as it
\* was.
C13_ZeroWidthEmitQueues ==
    [][(EmitStep /\ Width = 0 /\ Token = <<>>) =>
          /\ l_buf' = Append(l_buf, [Type |-> lastOp'.n, ref |-> nextRef,
                                     Value |-> <<>>, Start |-> Pos, End |-> Pos])
          /\ <<pos, cursor, b, rd>>' = <<pos, cursor, b, rd>>
      ]_vars

\* C13 witness: after a rune was discarded, NextToken returned a word of zero
\* width that a state had emitted.
C13_Witness ==
    \E i \in 1..Len(out) :
        /\ out[i].Type = wordType
        /\ out[i].Value = <<>>
        /\ out[i].Start = out[i].End
        /\ out[i].Start.Offset = 1

\* C14 (as the claim states it): every EOF token that NextToken made itself
\* (not one a state queued) has an empty Value and Start = End = the read
\* position.
C14_EOFAtReadPos ==
    (/\ out # <<>>
     /\ IsEOF(Last(out))
     /\ (l_buf = <<>> \/ Head(l_buf) # Last(out)))
        => /\ Last(out).Value = <<>>
           /\ Last(out).Start = Last(out).End
           /\ Last(out).End = Pos

\* The consumed prefix of the input, and what the position counters are as a
\* function of it.
Consumed == SubSeq(input, 1, rd)
NewlinesIn(rns) == {i \in 1..Len(rns) : rns[i] = Newline}
LastNewlineIn(rns) ==
    IF NewlinesIn(rns) = {} THEN 0
    ELSE CHOOSE i \in NewlinesIn(rns) : \A j \in NewlinesIn(rns) : j <= i
PosOf(rns) ==
    [Offset |-> Len(rns),
     Line |-> 1 + Cardinality(NewlinesIn(rns)),
     Column |-> 1 + Len(rns) - LastNewlineIn(rns)]

C16_TokenIsInputSlice ==
    /\ Cursor.Offset <= Pos.Offset
    /\ Width = Pos.Offset - Cursor.Offset
    /\ Token = SubSeq(input, Cursor.Offset + 1, Pos.Offset)
    /\ Len(Token) = Width
    /\ Cursor = PosOf(SubSeq(input, 1, Cursor.Offset))

\* C16 witness: one rune was discarded and the following one is the token
\* text.
C16_Witness ==
    /\ Len(input) = 2
    /\ Cursor.Offset = 1
    /\ Pos.Offset = 2
    /\ Token = <<input[2]>>
    /\ Width = 1

\* A step in which the named scanner operation was called and changed
\* something (the operation called last, its result, or the lexer).
Called(name) == lastOp'.name = name /\ lexVars' # lexVars
AtEnd == rd = Len(input)

\* C17: Peek and PeekN(k) leave Pos, Cursor, Width, Token and the queued
\* tokens as they are; a Peek right after a Peek returns the same rune; with
\* the input used up or an error recorded Peek returns EOF and PeekN(k), for
\* k > 0, returns fewer than k runes, and the end of the input (the
\* reader's io.EOF) is not recorded as an error.
C17_PeekFrame ==
    [][/\ (Called("Peek") \/ Called("PeekN")) =>
             /\ <<Pos, Cursor, Width, Token, l_buf>>' = <<Pos, Cursor, Width, Token, l_buf>>
             /\ rd' = rd
             /\ (termErr = EOFErr /\ Err = NoErr) => Err' = NoErr
       /\ (lastOp.name = "Peek" /\ lastOp'.name = "Peek") => opRet' = opRet
       /\ Called("Peek") =>
             opRet'.rns = IF AtEnd \/ Err # NoErr THEN <<EOF>> ELSE <<input[rd + 1]>>
       /\ (Called("PeekN") /\ lastOp'.n > 0 /\ (AtEnd \/ Err # NoErr)) =>
             /\ Len(opRet'.rns) < lastOp'.n
             /\ opRet'.n = Len(opRet'.rns)
      ]_vars

\* C17 witness: with one rune consumed and one left, PeekN(2) returned the
\* one rune and no error was recorded.
C17_Witness ==
    /\ Len(input) = 2
    /\ lastOp = [name |-> "PeekN", n |-> 2, q |-> <<>>]
    /\ opRet = [n |-> 1, rns |-> <<input[2]>>]
    /\ rd = 1
    /\ Token # <<>>
    /\ Err = NoErr

\* C18: over a reader that ends with io.EOF, AdvanceN(n) and DiscardN(n), for
\* n >= 0, return the number of runes they consumed, the smaller of n and
\* the number of runes left; reaching the end of the input records no error
\* and leaves the read position at the end of the input, where a Peek that
\* follows returns EOF; on an empty input they return 0 and the position
\* stays (0, 1, 1).
C18_AdvanceCount ==
    [][/\ ((Called("AdvanceN") \/ Called("DiscardN"))
             /\ Err = NoErr /\ termErr = EOFErr) =>
             LET left == Len(input) - rd
                 n == lastOp'.n
             IN  /\ opRet'.n = Min(n, left)
                 /\ rd' = rd + Min(n, left)
                 /\ Err' = NoErr
                 /\ n >= left => (rd' = Len(input) /\ Pos' = PosOf(input))
                 /\ input = <<>> => (opRet'.n = 0 /\ Pos' = StartPos)
       /\ (lastOp.name \in {"AdvanceN", "DiscardN"} /\ lastOp.n > opRet.n
             /\ Err = NoErr /\ Called("Peek")) =>
             (AtEnd /\ opRet'.rns = <<EOF>>)
      ]_vars

\* C18 witness: AdvanceN(3) on an input of two runes returned 2 and left
\* the read position at the end of the input, with no error recorded.
C18_Witness ==
    /\ Len(input) = 2
    /\ lastOp = [name |-> "AdvanceN", n |-> 3, q |-> <<>>]
    /\ opRet.n = 2
    /\ rd = 2
    /\ Token = input
    /\ Pos = PosOf(input)
    /\ Err = NoErr

\* C19: on a lexer with no error recorded DiscardN(n) consumes what
\* AdvanceN(n) consumes and returns what it returns, and after it, whatever
\* it returned and whatever text had been accumulated, Cursor() = Pos(),
\* Width() = 0 and Token() is empty.
C19_DiscardResetsToken ==
    [][(Called("DiscardN") /\ Err = NoErr) =>
          /\ Cursor' = Pos'
          /\ Width' = 0
          /\ Token' = <<>>
          /\ l_buf' = l_buf
          /\ \E k \in BufferedCounts :
                LET a == AdvanceN(Scanner, lastOp'.n, k) IN
                /\ a.n = opRet'.n
                /\ a.s.rd = rd'
                /\ a.s.pos = Pos'
                /\ a.s.err = Err'
      ]_vars

\* C19 witness: with one rune accumulated and one left, DiscardN(2) returned
\* 1 and the token text is empty.
C19_Witness ==
    /\ lastOp = [name |-> "DiscardN", n |-> 2, q |-> <<>>]
    /\ opRet.n = 1
    /\ rd = 2
    /\ Cursor = Pos
    /\ Token = <<>>
    /\ l_buf = <<>>
    /\ Err = NoErr

\* C20: on a lexer with no error recorded, over a reader that ends with
\* io.EOF, Find(q) stops at the earliest read position at which one of the
\* search strings is a prefix of what is left and returns such a string;
\* the token cursor does not move, exactly the runes before the match are
\* added to the token text and nothing from the match on is consumed; when
\* none occurs, everything left is consumed and the result is empty; a
\* search string shorter than the longest one is found also when fewer runes
\* than the longest one are left; with no search strings nothing is consumed
\* and the result is empty.
C20_FindEarliest ==
    [][(Called("Find") /\ Err = NoErr /\ termErr = EOFErr) =>
          LET q == lastOp'.q
              left == SubSeq(input, rd + 1, Len(input))
              Cands == {q[j] : j \in 1..Len(q)}
              PrefixAt(i, cand) ==
                  /\ i + Len(cand) <= Len(left)
                  /\ SubSeq(left, i + 1, i + Len(cand)) = cand
              Hits == {i \in 0..(Len(left) - 1) :
                          \E cand \in Cands : PrefixAt(i, cand)}
              first == CHOOSE i \in Hits : \A j \in Hits : i <= j
          IN  /\ Cursor' = Cursor
              /\ Err' = NoErr
              /\ l_buf' = l_buf
              /\ Pos' = PosOf(Consumed')
              /\ IF q = <<>>
                 THEN rd' = rd /\ Token' = Token /\ opRet'.rns = <<>>
                 ELSE IF Hits = {}
                 THEN /\ rd' = Len(input)
                      /\ Token' = Token \o left
                      /\ opRet'.rns = <<>>
                 ELSE /\ rd' = rd + first
                      /\ Token' = Token \o SubSeq(left, 1, first)
                      /\ opRet'.rns \in Cands
                      /\ PrefixAt(first, opRet'.rns)
      ]_vars

\* C20 witness: Find for "aa" or a newline on the input "a", newline stopped
\* at the newline, one rune before the end, and returned it, with "a" as the
\* token text.
C20_Witness ==
    /\ input = <<"a", Newline>>
    /\ lastOp.name = "Find"
    /\ lastOp.q = <<<<"a", "a">>, <<Newline>>>>
    /\ opRet.rns = <<Newline>>
    /\ rd = 1
    /\ Token = <<"a">>
    /\ Cursor = StartPos

\* C21 (as the claim states it): on a lexer with no error recorded, over a
\* reader that ends with io.EOF, DiscardTo(q) returns the string Find(q)
\* returns and stops at the read position at which Find(q) stops, with the
\* cursor at the read position and no token text.
C21_DiscardToAsFind ==
    [][(Called("DiscardTo") /\ Err = NoErr /\ termErr = EOFErr) =>
          LET f == Find(Scanner, lastOp'.q) IN
          /\ opRet'.rns = f.c
          /\ rd' = f.s.rd
          /\ Pos' = f.s.pos
          /\ Cursor' = Pos'
          /\ Token' = <<>>
      ]_vars

\* C22: once a non-EOF error is recorded it is never replaced, and from then
\* on Peek and NextRune return EOF, PeekN returns no runes, AdvanceN and
\* DiscardN return 0, Find and DiscardTo return the empty string and Emit
\* queues nothing and returns nil, all with the read position where it was;
\* the error recorded first is the reader's, and it is never io.EOF.
C22_ScannerErrorSticky ==
    [][/\ Err' # EOFErr
       /\ (Err = NoErr /\ Err' # NoErr) => Err' = termErr
       /\ (Err # NoErr /\ Err # EOFErr) =>
             /\ Err' = Err
             /\ rd' = rd
             /\ Pos' = Pos
             /\ l_buf' = l_buf
             /\ (Called("Peek") \/ Called("NextRune")) => opRet'.rns = <<EOF>>
             /\ Called("PeekN") => opRet' = [n |-> 0, rns |-> <<>>]
             /\ (Called("AdvanceN") \/ Called("DiscardN")) => opRet'.n = 0
             /\ (Called("Find") \/ Called("DiscardTo")) => opRet'.rns = <<>>
             /\ Called("Emit") => opRet'.n = 0
      ]_vars

\* C22 witness: with the reader's error recorded and a rune still unread,
\* AdvanceN(1) returned 0.
C22_Witness ==
    /\ Err = errRead
    /\ lastOp = [name |-> "AdvanceN", n |-> 1, q |-> <<>>]
    /\ opRet.n = 0
    /\ rd < Len(input)

(***************************************************************************)
(* The parse tree operations of Parser, as functions of the tree           *)
(* [nodes, root, node] and the current token p.token; each returns the     *)
(* tree after the call (tr) and the call's result.                         *)
(***************************************************************************)
\* The tree in the current state.
Tree == [nodes |-> nodes, root |-> p_root, node |-> p_node]

\* The values a state gives to nodes.
Values == {"x", "y"}

\* NewNode, lines 271-281: a node that is not in the tree, at the start of
\* the current token if there is one.
NewNode_mut_zeroStart(v, tok) ==
    [Parent |-> 0, Children |-> <<>>, Value |-> v, Start |-> ZeroPos]
NewNode(v, tok) ==
    [Parent |-> 0, Children |-> <<>>, Value |-> v,
     Start |-> IF tok # NilToken THEN tok.Start ELSE ZeroPos]

\* Node, lines 261-267: the new node becomes the last child of the current
\* node, which becomes its parent.
Node_mut_prepend(tr, v, tok) ==
    LET n == Len(tr.nodes) + 1 IN
    [tr |-> [tr EXCEPT !.nodes =
                Append([tr.nodes EXCEPT ![tr.node].Children = <<n>> \o @],
                       [NewNode(v, tok) EXCEPT !.Parent = tr.node])],
     n |-> n]
Node(tr, v, tok) ==
    LET n == Len(tr.nodes) + 1 IN
    [tr |-> [tr EXCEPT !.nodes =
                Append([tr.nodes EXCEPT ![tr.node].Children = Append(@, n)],
                       [NewNode(v, tok) EXCEPT !.Parent = tr.node])],
     n |-> n]

\* Push, lines 254-257: Node, and the new node becomes the current node.
Push_mut_noParent(tr, v, tok) ==
    LET r == Node(tr, v, tok) IN
    [tr |-> [r.tr EXCEPT !.node = r.n, !.nodes[r.n].Parent = 0], n |-> r.n]
Push(tr, v, tok) ==
    LET r == Node(tr, v, tok) IN
    [tr |-> [r.tr EXCEPT !.node = r.n], n |-> r.n]

\* Climb, lines 287-294: the current node becomes its parent if it has one;
\* the node that was current is returned.
Climb_mut_returnsParent(tr) ==
    LET to == IF tr.nodes[tr.node].Parent # 0 THEN tr.nodes[tr.node].Parent
              ELSE tr.node
    IN  [tr |-> [tr EXCEPT !.node = to], n |-> to]
Climb(tr) ==
    [tr |-> IF tr.nodes[tr.node].Parent # 0
            THEN [tr EXCEPT !.node = tr.nodes[tr.node].Parent]
            ELSE tr,
     n |-> tr.node]

\* Replace, lines 305-313: the first child of parent that is old is replaced
\* by new.
ReplaceChild_mut_keep(children, old, new) == children
ReplaceChild(children, old, new) ==
    IF \E i \in 1..Len(children) : children[i] = old
    THEN LET i == CHOOSE i \in 1..Len(children) :
                      /\ children[i] = old
                      /\ \A j \in 1..(i - 1) : children[j] # old
         IN  [children EXCEPT ![i] = new]
    ELSE children

\* Replace, lines 301-333: a new node takes the current node's parent, its
\* place among the parent's children, and its children, whose parent it
\* becomes; it becomes the root if the current node was the root, and the
\* current node. The value of the node that was current is returned.
Replace(tr, v, tok) ==
    LET old == tr.node
        n == Len(tr.nodes) + 1
        parent == tr.nodes[old].Parent
        kids == tr.nodes[old].Children
        node == [NewNode(v, tok) EXCEPT !.Parent = parent, !.Children = kids]
        withNode == Append(tr.nodes, node)
        nodes1 == IF parent # 0
                  THEN [withNode EXCEPT ![parent].Children =
                           ReplaceChild(@, old, n)]
                  ELSE withNode
        nodes2 == [i \in 1..Len(nodes1) |->
                      IF \E k \in 1..Len(kids) : kids[k] = i
                      THEN [nodes1[i] EXCEPT !.Parent = n]
                      ELSE nodes1[i]]
    IN  [tr |-> [nodes |-> nodes2,
                 root |-> IF old = tr.root THEN n ELSE tr.root,
                 node |-> n],
         val |-> tr.nodes[old].Value]

(***************************************************************************)
(* SpecTree: a Parser whose tree operations are called one after another,  *)
(* in any order with any values, as a state (or a test) calls them.        *)
(***************************************************************************)
\* A tree operation is called while Parse is not in progress or from inside
\* a running state; tr is the tree after it. The operation called last is
\* recorded with its arguments, its result and which of Peek and Next the
\* state called before it.
TreeCall(tr, name, v, n, val) ==
    /\ parsePc \in {"idle", "run"}
    /\ nodes' = tr.nodes
    /\ p_root' = tr.root
    /\ p_node' = tr.node
    /\ treeOp' = [name |-> name, v |-> v, n |-> n, val |-> val,
                  after |-> pcall.kind]
    /\ UNCHANGED <<slVars, ctxVars, lexVars, chanVars, parseVars, lpVars, soloVars>>

\* The operations that allocate a node are called while fewer than MaxNodes
\* nodes were allocated.
MayAllocate == Len(nodes) < MaxNodes

TreeNode(v) ==
    /\ MayAllocate
    /\ LET r == Node(Tree, v, p_token) IN TreeCall(r.tr, "Node", v, r.n, NoValue)

TreePush(v) ==
    /\ MayAllocate
    /\ LET r == Push(Tree, v, p_token) IN TreeCall(r.tr, "Push", v, r.n, NoValue)

TreeClimb ==
    LET r == Climb(Tree) IN TreeCall(r.tr, "Climb", NoValue, r.n, NoValue)

TreeReplace(v) ==
    /\ MayAllocate
    /\ LET r == Replace(Tree, v, p_token) IN TreeCall(r.tr, "Replace", v, 0, r.val)

InitSpecTree ==
    /\ InitCtx /\ IdleScanning /\ InitLexer /\ IdleScanner /\ IdleDriver
    /\ InitTree /\ IdleSolo

NextTree ==
    \/ \E v \in Values : TreeNode(v)
    \/ \E v \in Values : TreePush(v)
    \/ TreeClimb
    \/ \E v \in Values : TreeReplace(v)

SpecTree == InitSpecTree /\ [][NextTree]_vars

(***************************************************************************)
(* SpecParse: a Parser used on its own. Parse runs the states on the       *)
(* stack; a running state pushes states, calls Peek and Next on a token    *)
(* source that holds some words and then EOF, replaces the current node,   *)
(* and returns nil, io.EOF or an error.                                    *)
(***************************************************************************)
\* The states, told apart by name.
SoloStates == {"s1", "s2", "s3"}

\* TokenSource, lines 113-118: the source returns its tokens in order and,
\* once they are exhausted, a token of type EOF on every call. s is what
\* the source has yet to return, the EOF token last.
SourceToken(i) ==
    [Type |-> wordType, ref |-> i, Value |-> <<"a">>,
     Start |-> [Offset |-> i, Line |-> 1, Column |-> i + 1],
     End |-> [Offset |-> i + 1, Line |-> 1, Column |-> i + 2]]
SourceEOF(n) ==
    [Type |-> TokenTypeEOF, ref |-> n, Value |-> <<>>,
     Start |-> [Offset |-> n, Line |-> 1, Column |-> n + 1],
     End |-> [Offset |-> n, Line |-> 1, Column |-> n + 1]]
Sources == {[i \in 1..(n + 1) |-> IF i <= n THEN SourceToken(i - 1) ELSE SourceEOF(n)] :
               n \in 0..MaxSource}
SourceNext(s) ==
    [tok |-> Head(s), rest |-> IF IsEOF(Head(s)) THEN s ELSE Tail(s)]

\* Peek, lines 227-235: the token peeked before if there is one; otherwise
\* the next token of the source, which is kept in p.next. pulled is what
\* the call took from the source.
ParserPeek_mut_alwaysPull(next, s) ==
    LET r == SourceNext(s) IN
    [next |-> r.tok, src |-> r.rest, tok |-> r.tok, pulled |-> <<r.tok>>]
ParserPeek(next, s) ==
    IF next # NilToken
    THEN [next |-> next, src |-> s, tok |-> next, pulled |-> <<>>]
    ELSE LET r == SourceNext(s) IN
         [next |-> r.tok, src |-> r.rest, tok |-> r.tok, pulled |-> <<r.tok>>]

\* Next, lines 239-245: the token Peek returns becomes the current token and
\* p.next is cleared.
ParserNext(next, s) ==
    LET l == ParserPeek(next, s) IN
    [next |-> NilToken, token |-> l.tok, src |-> l.src, tok |-> l.tok,
     pulled |-> l.pulled]

\* Parse, lines 192-199: what Parse does when the state's Run returned e:
\* nil, go round the loop; io.EOF, leave the loop and return nil; any other
\* error, return it.
ParseAfterRun_mut_ignoreErr(e) ==
    [stop |-> e = EOFErr, err |-> NoErr]
ParseAfterRun_mut_eofIsErr(e) ==
    [stop |-> e # NoErr, err |-> e]
ParseAfterRun(e) ==
    [stop |-> e # NoErr, err |-> IF e = EOFErr THEN NoErr ELSE e]

\* Parse returns (p.root, e).
PReturn(e) ==
    /\ parseErr' = e
    /\ retRoot' = p_root
    /\ parsePc' = "done"

\* Parse, lines 175-189: pop a state; with none left Parse returns nil; with
\* the context done it returns the context's error without running the
\* state; otherwise the state is run.
PPop_mut_noCtxCheck ==
    /\ parsePc = "pop"
    /\ LET r == pop(stateStack) IN
       /\ stateStack' = r.rest
       /\ IF r.v = Nil THEN PReturn(NoErr) /\ UNCHANGED ran
          ELSE /\ parsePc' = "run"
               /\ ran' = Append(ran, r.v)
               /\ UNCHANGED <<parseErr, retRoot>>
    /\ UNCHANGED <<p_next, p_token, callKind, recvd>>
    /\ UNCHANGED <<lexErr, lpPc, retErr>>
    /\ UNCHANGED <<src, pushed, pcall, stateErr>>
    /\ UNCHANGED <<slVars, ctxVars, lexVars, chanVars, treeVars>>
PPop ==
    /\ parsePc = "pop"
    /\ LET r == pop(stateStack) IN
       /\ stateStack' = r.rest
       /\ IF r.v = Nil THEN PReturn(NoErr) /\ UNCHANGED ran
          ELSE IF ctxErr # NoErr THEN PReturn(ctxErr) /\ UNCHANGED ran
          ELSE /\ parsePc' = "run"
               /\ ran' = Append(ran, r.v)
               /\ UNCHANGED <<parseErr, retRoot>>
    /\ UNCHANGED <<p_next, p_token, callKind, recvd>>
    /\ UNCHANGED <<lexErr, lpPc, retErr>>
    /\ UNCHANGED <<src, pushed, pcall, stateErr>>
    /\ UNCHANGED <<slVars, ctxVars, lexVars, chanVars, treeVars>>

\* The running state calls p.PushState(states...); no more states are pushed
\* than Parse may run.
PPushState(states) ==
    /\ parsePc = "run"
    /\ Len(stateStack) + Len(states) <= MaxSoloStack
    /\ Len(ran) + Len(stateStack) + Len(states) <= MaxRan
    /\ stateStack' = PushState(stateStack, states)
    /\ pushed' = states
    /\ UNCHANGED <<p_next, p_token, parsePc, callKind, recvd>>
    /\ UNCHANGED <<src, ran, pcall, retRoot, stateErr>>
    /\ UNCHANGED <<slVars, ctxVars, lexVars, chanVars, lpVars, treeVars>>

\* The running state calls p.Peek(ctx); no more than MaxPulls tokens are
\* taken from the source.
PPeek_mut_setsToken ==
    /\ parsePc = "run"
    /\ LET r == ParserPeek(p_next, src) IN
       /\ Len(recvd) + Len(r.pulled) <= MaxPulls
       /\ p_next' = r.next
       /\ p_token' = r.tok
       /\ src' = r.src
       /\ recvd' = recvd \o r.pulled
       /\ pcall' = [kind |-> "Peek", tok |-> r.tok]
    /\ UNCHANGED <<stateStack, parsePc, callKind>>
    /\ UNCHANGED <<ran, pushed, retRoot, stateErr>>
    /\ UNCHANGED <<slVars, ctxVars, lexVars, chanVars, lpVars, treeVars>>
PPeek ==
    /\ parsePc = "run"
    /\ LET r == ParserPeek(p_next, src) IN
       /\ Len(recvd) + Len(r.pulled) <= MaxPulls
       /\ p_next' = r.next
       /\ src' = r.src
       /\ recvd' = recvd \o r.pulled
       /\ pcall' = [kind |-> "Peek", tok |-> r.tok]
    /\ UNCHANGED <<stateStack, p_token, parsePc, callKind>>
    /\ UNCHANGED <<ran, pushed, retRoot, stateErr>>
    /\ UNCHANGED <<slVars, ctxVars, lexVars, chanVars, lpVars, treeVars>>

\* The running state calls p.Next(ctx).
PNext ==
    /\ parsePc = "run"
    /\ LET r == ParserNext(p_next, src) IN
       /\ Len(recvd) + Len(r.pulled) <= MaxPulls
       /\ p_next' = r.next
       /\ p_token' = r.token
       /\ src' = r.src
       /\ recvd' = recvd \o r.pulled
       /\ pcall' = [kind |-> "Next", tok |-> r.tok]
    /\ UNCHANGED <<stateStack, parsePc, callKind>>
    /\ UNCHANGED <<ran, pushed, retRoot, stateErr>>
    /\ UNCHANGED <<slVars, ctxVars, lexVars, chanVars, lpVars, treeVars>>

\* The running state calls p.Replace(v).
PReplace(v) ==
    /\ parsePc = "run"
    /\ Len(nodes) < MaxSoloNodes
    /\ TreeReplace(v)

\* The state's Run returns e.
PRunReturn(e) ==
    /\ parsePc = "run"
    /\ stateErr' = e
    /\ LET r == ParseAfterRun(e) IN
       IF r.stop THEN PReturn(r.err)
       ELSE parsePc' = "pop" /\ UNCHANGED <<parseErr, retRoot>>
    /\ UNCHANGED <<stateStack, p_next, p_token, callKind, recvd>>
    /\ UNCHANGED <<lexErr, lpPc, retErr>>
    /\ UNCHANGED <<src, ran, pushed, pcall>>
    /\ UNCHANGED <<slVars, ctxVars, lexVars, chanVars, treeVars>>

\* The caller of Parse cancels the context.
PCancel ==
    /\ parsePc # "done"
    /\ \E cause \in CancelCauses : CallerCancel(cause)
    /\ UNCHANGED slVars
    /\ UNCHANGED <<lexVars, chanVars, parseVars, lpVars, treeVars, soloVars>>

\* NewParser(tokens, startingState), lines 122-140, and the call of Parse.
InitParse ==
    /\ InitCtx /\ IdleScanning /\ InitLexer /\ IdleScanner /\ InitTree
    /\ c = <<>>
    /\ chanCap = 0
    /\ tc_err = NoErr
    /\ stateStack = PushState(<<>>, <<"s1">>)
    /\ p_next = NilToken
    /\ p_token = NilToken
    /\ parsePc = "pop"
    /\ callKind = "none"
    /\ recvd = <<>>
    /\ lexErr = NoErr
    /\ parseErr = NoErr
    /\ lpPc = "idle"
    /\ retErr = NoErr
    /\ src \in Sources
    /\ ran = <<>>
    /\ pushed = <<>>
    /\ pcall = NoCall
    /\ retRoot = 0
    /\ stateErr = NoErr

NextParse ==
    \/ PPop
    \/ \E states \in SeqUpTo(SoloStates, 2) \ {<<>>} : PPushState(states)
    \/ PPeek
    \/ PNext
    \/ \E v \in Values : PReplace(v)
    \/ \E e \in ParseRunErrs : PRunReturn(e)
    \/ PCancel

SpecParse == InitParse /\ [][NextParse]_vars

(***************************************************************************)
(* Claims about the parse tree (checked under SpecTree).                   *)
(***************************************************************************)
\* A step in which the named tree operation was called and changed
\* something (the tree, the operation called last or its result).
TreeStep(name) == treeOp'.name = name /\ treeVars' # treeVars

\* The children of node n as a set, and the nodes reachable from the root
\* through Children.
ChildrenOf(n) == {nodes[n].Children[i] : i \in 1..Len(nodes[n].Children)}
RECURSIVE ReachFrom(_, _)
ReachFrom(S, k) ==
    IF k = 0 THEN S
    ELSE ReachFrom(S \cup UNION {ChildrenOf(n) : n \in S}, k - 1)
Reachable == ReachFrom({p_root}, Len(nodes))

\* C27: Node(v) and Push(v) allocate a node with value v and no children,
\* append it as the last child of the current node and make the current
\* node its parent, leaving every other node and the root as they were;
\* Node leaves the current node as it was and Push makes the new node the
\* current node; the new node is returned.
C27_NodeAppendsChild ==
    [][(TreeStep("Node") \/ TreeStep("Push")) =>
          LET n == treeOp'.n IN
          /\ n = Len(nodes) + 1
          /\ Len(nodes') = n
          /\ nodes'[n].Value = treeOp'.v
          /\ nodes'[n].Parent = p_node
          /\ nodes'[n].Children = <<>>
          /\ nodes'[p_node] =
                [nodes[p_node] EXCEPT !.Children = Append(@, n)]
          /\ \A i \in 1..Len(nodes) : i # p_node => nodes'[i] = nodes[i]
          /\ p_root' = p_root
          /\ p_node' = IF treeOp'.name = "Push" THEN n ELSE p_node
      ]_vars

\* C27 witness: below a pushed node, Node was called twice; the pushed node
\* is still current and lists the two nodes in the order of creation.
C27_Witness ==
    /\ treeOp.name = "Node"
    /\ p_node = 2
    /\ nodes[2].Children = <<3, 4>>
    /\ nodes[4].Parent = 2
    /\ nodes[1].Children = <<2>>

C29_ReplaceInPlace ==
    [][TreeStep("Replace") =>
          LET old == p_node
              n == Len(nodes) + 1
              par == nodes[old].Parent
              kids == nodes[old].Children
          IN  /\ Len(nodes') = n
              /\ nodes'[n].Value = treeOp'.v
              /\ treeOp'.val = nodes[old].Value
              /\ nodes'[n].Parent = par
              /\ par # 0 =>
                    /\ Len(nodes'[par].Children) = Len(nodes[par].Children)
                    /\ \A i \in 1..Len(nodes[par].Children) :
                          nodes'[par].Children[i] =
                             IF nodes[par].Children[i] = old THEN n
                             ELSE nodes[par].Children[i]
                    /\ nodes'[par].Parent = nodes[par].Parent
                    /\ nodes'[par].Value = nodes[par].Value
              /\ nodes'[n].Children = kids
              /\ \A k \in 1..Len(kids) :
                    nodes'[kids[k]] = [nodes[kids[k]] EXCEPT !.Parent = n]
              /\ \A i \in 1..Len(nodes) :
                    (i # par /\ \A k \in 1..Len(kids) : kids[k] # i)
                       => nodes'[i] = nodes[i]
              /\ p_root' = IF old = p_root THEN n ELSE p_root
              /\ p_node' = n
              /\ old \notin Reachable'
      ]_vars

\* C29 witness: the node replaced was the second child of the root and had
\* a child of its own.
C29_Witness ==
    /\ treeOp.name = "Replace"
    /\ Len(nodes) = 5
    /\ p_node = 5
    /\ nodes[p_root].Children = <<2, 5>>
    /\ nodes[5].Children = <<4>>
    /\ nodes[4].Parent = 5

\* C30: after any sequence of Push, Node, Climb and Replace, every node
\* reachable from the root other than the root is listed exactly once among
\* the children of its parent, every child a reachable node lists has that
\* node as its parent, and the root has no parent.
C30_TreeWellFormed ==
    /\ nodes[p_root].Parent = 0
    /\ p_node \in Reachable
    /\ \A n \in Reachable \ {p_root} :
          LET par == nodes[n].Parent IN
          /\ par # 0
          /\ par \in Reachable
          /\ Cardinality({i \in 1..Len(nodes[par].Children) :
                             nodes[par].Children[i] = n}) = 1
    /\ \A m \in Reachable : \A n \in ChildrenOf(m) : nodes[n].Parent = m

\* C30 witness: a node below the root that had a child was replaced, so that
\* one of the five nodes allocated is no longer in the tree.
C30_Witness ==
    /\ treeOp.name = "Replace"
    /\ Len(nodes) = 5
    /\ Cardinality(Reachable) = 4
    /\ p_node # p_root
    /\ nodes[p_node].Children # <<>>

(***************************************************************************)
(* Claims about Parser.Parse, PushState, Peek and Next (checked under      *)
(* SpecParse).                                                             *)
(***************************************************************************)
\* The states on the stack in the order in which Parse will run them: the
\* top of the stack first.
Agenda == [i \in 1..Len(stateStack) |-> stateStack[Len(stateStack) + 1 - i]]

\* Steps of Parse and of the running state: PushState is called; Parse pops
\* a state and runs it; the state's Run returns.
PushStep == parsePc = "run" /\ stateStack' # stateStack
RunStep == parsePc = "pop" /\ parsePc' = "run"
RunReturns == parsePc = "run" /\ parsePc' # "run"

\* C23: PushState(s1, ..., sn) puts s1, ..., sn, in this order, in front of
\* the states Parse has yet to run, and Parse always runs the first of the
\* states it has yet to run: s1, ..., sn run in the listed order and before
\* every state that was on the stack, and the states a running state pushed
\* run before the states that were below it.
C23_PushStateOrder ==
    [][/\ PushStep => Agenda' = pushed' \o Agenda
       /\ RunStep => (ran' = Append(ran, Head(Agenda)) /\ Agenda' = Tail(Agenda))
       /\ ~RunStep => ran' = ran
      ]_vars

\* C23 witness: s1 pushed (s2, s3), s2 pushed (s1), and Parse ran s1, s2,
\* s1, s3.
C23_Witness ==
    /\ ran = <<"s1", "s2", "s1", "s3">>
    /\ pushed = <<"s1">>
    /\ stateStack = <<>>

\* C24: when a state's Run returns an error other than io.EOF, Parse returns
\* the current root together with that error and runs no further state;
\* with no error recorded by the lexer, LexParse returns that error.
C24_StopAtFirstError ==
    [][/\ (RunReturns /\ stateErr' \notin {NoErr, EOFErr}) =>
             /\ parsePc' = "done"
             /\ parseErr' = stateErr'
             /\ retRoot' = p_root
             /\ ComposeErr(NoErr, parseErr') = stateErr'
       /\ parsePc = "done" =>
             (parsePc' = "done" /\ ran' = ran /\ parseErr' = parseErr
                 /\ retRoot' = retRoot)
      ]_vars

\* C24 witness: the second state run replaced the root and returned an
\* error; Parse returned the new root and the error, with a state still on
\* the stack.
C24_Witness ==
    /\ parsePc = "done"
    /\ stateErr = errParse
    /\ parseErr = errParse
    /\ Len(ran) = 2
    /\ stateStack # <<>>
    /\ retRoot = p_root
    /\ p_root # 1

\* C25: when a state's Run returns io.EOF, Parse returns the current root
\* and a nil error, and the states still on the stack are not run.
C25_EOFStopsParse ==
    [][(RunReturns /\ stateErr' = EOFErr) =>
          /\ parsePc' = "done"
          /\ parseErr' = NoErr
          /\ retRoot' = p_root
          /\ stateStack' = stateStack
          /\ ran' = ran
      ]_vars

\* C25 witness: a state returned io.EOF with two states still on the stack;
\* Parse returned nil and the states were not run.
C25_Witness ==
    /\ parsePc = "done"
    /\ stateErr = EOFErr
    /\ parseErr = NoErr
    /\ Len(stateStack) = 2
    /\ Len(ran) = 1
    /\ retRoot = p_root

\* A step in which Peek or Next was called and changed something.
TokenCall(kind) ==
    /\ pcall'.kind = kind
    /\ <<p_next, p_token, src, recvd, pcall>>' # <<p_next, p_token, src, recvd, pcall>>

\* C26: over a token source that never returns nil, Peek returns the next
\* token of the source without consuming it: it leaves the current token as
\* it was; a Peek after a Peek returns the same
\* token, and the Next after a Peek returns that token and takes nothing
\* from the source; the tokens taken from the source are those Next
\* returned, the current token last, followed by the peeked token if there
\* is one, so that never more than one token is taken beyond the last token
\* Next returned.
C26_PeekIdempotent ==
    [][/\ TokenCall("Peek") =>
             /\ pcall'.tok = p_next'
             /\ p_next' # NilToken
             /\ p_token' = p_token
             /\ p_next # NilToken => (p_next' = p_next /\ recvd' = recvd /\ src' = src)
       /\ (pcall.kind = "Peek" /\ pcall'.kind = "Peek") => pcall'.tok = pcall.tok
       /\ (pcall.kind = "Peek" /\ TokenCall("Next")) =>
             (pcall'.tok = pcall.tok /\ recvd' = recvd /\ src' = src)
       /\ TokenCall("Next") =>
             (pcall'.tok = p_token' /\ p_next' = NilToken)
       /\ LET pulled == recvd'
              n == Len(pulled)
          IN  IF p_next' # NilToken
              THEN /\ n >= 1
                   /\ pulled[n] = p_next'
                   /\ IF n = 1 THEN p_token' = NilToken
                      ELSE pulled[n - 1] = p_token'
              ELSE IF n = 0 THEN p_token' = NilToken
                   ELSE pulled[n] = p_token'
      ]_vars

\* C26 witness: after Next returned the first word, Peek returned the second
\* word, which is not the current token.
C26_Witness ==
    /\ pcall.kind = "Peek"
    /\ Len(recvd) = 2
    /\ p_token = recvd[1]
    /\ p_next = recvd[2]
    /\ pcall.tok = recvd[2]
    /\ ~IsEOF(recvd[2])
    /\ recvd[1] # recvd[2]

(***************************************************************************)
(* SpecCalls: the calls a running parse state makes on its Parser, one     *)
(* after another in any order: Peek and Next on a token source that holds  *)
(* some words and then EOF, and the tree operations Node, Push, NewNode,   *)
(* Climb, Replace and SetRoot.                                             *)
(***************************************************************************)
\* SetRoot, lines 216-219: the given node becomes the root and the current
\* node.
SetRoot(tr, n) == [tr EXCEPT !.root = n, !.node = n]

\* The running state calls p.NewNode(v): the node is allocated and returned
\* and is not linked into the tree.
TreeNewNode(v) ==
    /\ MayAllocate
    /\ LET n == Len(nodes) + 1
           tr == [Tree EXCEPT !.nodes = Append(@, NewNode(v, p_token))]
       IN  TreeCall(tr, "NewNode", v, n, NoValue)

\* The running state calls p.SetRoot(n) with a node it holds: one that
\* NewNode, Node or Push returned, or the root.
TreeSetRoot(n) ==
    TreeCall(SetRoot(Tree, n), "SetRoot", NoValue, n, NoValue)

\* NewParser(tokens, startingState), lines 122-140, and Parse up to the
\* point where the starting state runs.
InitCalls ==
    /\ InitCtx /\ IdleScanning /\ InitLexer /\ IdleScanner /\ InitTree
    /\ c = <<>>
    /\ chanCap = 0
    /\ tc_err = NoErr
    /\ stateStack = <<>>
    /\ p_next = NilToken
    /\ p_token = NilToken
    /\ parsePc = "run"
    /\ callKind = "none"
    /\ recvd = <<>>
    /\ lexErr = NoErr
    /\ parseErr = NoErr
    /\ lpPc = "idle"
    /\ retErr = NoErr
    /\ src \in Sources
    /\ ran = <<"s1">>
    /\ pushed = <<>>
    /\ pcall = NoCall
    /\ retRoot = 0
    /\ stateErr = NoErr

\* The state allocates at most MaxCallNodes nodes.
MayCreate == Len(nodes) < MaxCallNodes

NextCalls ==
    \/ PPeek
    \/ PNext
    \/ MayCreate /\ \E v \in Values : TreeNode(v)
    \/ MayCreate /\ \E v \in Values : TreePush(v)
    \/ MayCreate /\ \E v \in Values : TreeNewNode(v)
    \/ TreeClimb
    \/ MayCreate /\ \E v \in Values : TreeReplace(v)
    \/ \E n \in 1..Len(nodes) : TreeSetRoot(n)

SpecCalls == InitCalls /\ [][NextCalls]_vars

(***************************************************************************)
(* Claims about the calls of a running state (checked under SpecCalls).    *)
(***************************************************************************)
\* C31: in every reachable parser state, after any sequence of Push, Node,
\* Climb, Replace and SetRoot, the cursor node is reachable from the root
\* by following child links.
C31_CursorReachable == p_node \in Reachable

\* The token most recently returned by Next, from the tokens taken from the
\* source: all of them but the peeked one, if there is one.
LastNexted ==
    LET k == Len(recvd) - (IF p_next # NilToken THEN 1 ELSE 0) IN
    IF k = 0 THEN NilToken ELSE recvd[k]

\* A step in which NewNode, Node, Push or Replace allocated a node.
Creates == Len(nodes') = Len(nodes) + 1

\* C32 as stated: a node created by NewNode, Node, Push or Replace starts at
\* the Start of the token most recently returned by Next, or at offset 0,
\* line 1, column 1 when Next has not been called yet.
C32_NodeStartOrOrigin ==
    [][Creates =>
          nodes'[Len(nodes')].Start =
              IF LastNexted = NilToken THEN StartPos ELSE LastNexted.Start
      ]_vars

\* C32 as the code has it: a node created by NewNode, Node, Push or Replace
\* starts at the Start of the token most recently returned by Next, or at
\* the zero Position (offset 0, line 0, column 0) when Next has not been
\* called yet.
C32_NodeStartOrZero ==
    [][Creates =>
          nodes'[Len(nodes')].Start =
              IF LastNexted = NilToken THEN ZeroPos ELSE LastNexted.Start
      ]_vars

\* C32 witness: a node was created before the first Next and another after
\* Next returned the second word.
C32_Witness ==
    /\ Len(nodes) = 3
    /\ Len(recvd) = 2
    /\ p_token = recvd[2]
    /\ ~IsEOF(p_token)
    /\ nodes[2].Start = ZeroPos
    /\ nodes[3].Start = p_token.Start
    /\ nodes[3].Start # StartPos

\* A step in which a tree operation was called.
AnyTreeStep == treeVars' # treeVars

\* C40: Peek does not change the parser's current token: a node created
\* after Peek with no Next in between starts at the Start of the last token
\* Next returned (the zero Position if there is none), not at that of the
\* peeked token; only Next changes the current token, and Push, Node,
\* NewNode, Climb, Replace and SetRoot take no token from the token source
\* and leave the peeked token and the current token as they were.
C40_PeekKeepsCurrentToken ==
    [][/\ TokenCall("Peek") => (p_token' = p_token /\ LastNexted' = LastNexted)
       /\ p_token' # p_token => TokenCall("Next")
       /\ (Creates /\ pcall.kind = "Peek") =>
             /\ p_next # NilToken
             /\ nodes'[Len(nodes')].Start =
                   IF p_token = NilToken THEN ZeroPos ELSE p_token.Start
             /\ p_token = LastNexted
       /\ AnyTreeStep =>
             /\ src' = src
             /\ recvd' = recvd
             /\ p_next' = p_next
             /\ p_token' = p_token
             /\ pcall' = pcall
      ]_vars

\* C40 witness: Next returned the first word, Peek returned the second, and
\* then Node created a node, which starts where the first word starts and
\* not where the peeked word starts.
C40_Witness ==
    /\ treeOp.name = "Node"
    /\ treeOp.after = "Peek"
    /\ pcall.kind = "Peek"
    /\ Len(recvd) = 2
    /\ p_token = recvd[1]
    /\ p_next = recvd[2]
    /\ nodes[treeOp.n].Start = p_token.Start
    /\ nodes[treeOp.n].Start # ZeroPos
    /\ nodes[treeOp.n].Start # p_next.Start

(***************************************************************************)
(* ScanningLexer (src/lexer/scanner.go, lines 53-109). The text/scanner    *)
(* Scanner it wraps is the environment: each Scan finds one token and may  *)
(* report errors through the Error callback while it does; at the end of   *)
(* the input Scan returns scanner.EOF, and reports the reader's failure if *)
(* the reader failed.                                                      *)
(***************************************************************************)
\* The messages the scanner reports.
ScanMsgs == {"m1", "m2"}

\* The Error callback, lines 68-72: the error is recorded if none was.
ScanError_mut_overwrite(err, e) == e
ScanError(err, e) == IF err = NoScanErr THEN e ELSE err

\* The errors reported during one Scan, in order, through the callback.
RECURSIVE ScanErrors(_, _, _)
ScanErrors(err, msgs, at) ==
    IF msgs = <<>> THEN err
    ELSE ScanErrors(ScanError(err, [at |-> at, msg |-> Head(msgs)]), Tail(msgs), at)

\* l.s.Scan(): the next token with the messages reported while scanning
\* it, or scanner.EOF at the end of the input.
Scan(s) ==
    IF s.rest = <<>>
    THEN [tok |-> TokenTypeEOF, msgs |-> s.endErrs, rest |-> <<>>]
    ELSE [tok |-> Head(s.rest).tok, msgs |-> Head(s.rest).msgs, rest |-> Tail(s.rest)]

\* newToken, lines 103-109: a token of the given type whose Value is the
\* text of the token the scanner found last (identified by its Scan).
scanningToken(typ, scans) == [Type |-> typ, Value |-> scans]

\* NextToken, lines 82-94: with an error recorded, an EOF token and no Scan;
\* otherwise one Scan, whose token is returned with the scanner's type,
\* scanner.EOF as TokenTypeEOF.
ScanningNextToken(s) ==
    IF s.err # NoScanErr
    THEN [s EXCEPT !.tok = scanningToken(TokenTypeEOF, s.scans),
                   !.calls = @ + 1]
    ELSE LET r == Scan(s)
             at == s.scans + 1
         IN  [rest |-> r.rest,
              endErrs |-> s.endErrs,
              err |-> ScanErrors(s.err, r.msgs, at),
              scans |-> at,
              calls |-> s.calls + 1,
              tok |-> scanningToken(r.tok, at),
              reported |-> s.reported \o
                             [i \in 1..Len(r.msgs) |-> [at |-> at, msg |-> r.msgs[i]]]]

\* Err, lines 98-100.
ScanningErr(s) == s.err

(***************************************************************************)
(* SpecScanning: a ScanningLexer whose NextToken is called again and       *)
(* again, over every input of at most MaxScanItems tokens.                 *)
(***************************************************************************)
\* What one Scan can find: an identifier or a string, with the messages
\* reported while scanning it.
ScanItems ==
    [tok : {TokenTypeIdent, TokenTypeString}, msgs : SeqUpTo(ScanMsgs, MaxScanErrs)]

\* NewScanningLexer, lines 64-78.
InitScanning ==
    /\ InitCtx /\ InitLexer /\ IdleScanner /\ IdleDriver /\ InitTree /\ IdleSolo
    /\ \E rest \in SeqUpTo(ScanItems, MaxScanItems), e \in SeqUpTo(ScanMsgs, 1) :
          sl = [NoScanning EXCEPT !.rest = rest, !.endErrs = e]

\* The caller calls l.NextToken(ctx).
ScanningCall ==
    /\ sl.calls < MaxScanCalls
    /\ sl' = ScanningNextToken(sl)
    /\ UNCHANGED <<ctxVars, lexVars, chanVars, parseVars, lpVars, treeVars, soloVars>>

NextScanning == ScanningCall

SpecScanning == InitScanning /\ [][NextScanning]_vars

NonEOF(s) == SelectSeq(s, LAMBDA x : ~IsEOF(x))

\* The tokens of a sequence are in the order in which they were allocated,
\* none twice.
InEmitOrder(s) == \A i, j \in 1..Len(s) : i < j => s[i].ref < s[j].ref

\* C34: NextToken returns the non-EOF tokens in the order in which Emit was
\* called, each at most once: the non-EOF tokens returned so far, followed
\* by the tokens still queued, are in Emit order. A token leaves the queue
\* only by being returned, the head first, and with a token queued and no
\* error recorded NextToken returns the head of the queue without running a
\* state; the current state is run only when no token is queued, so that
\* the tokens one state invocation emitted are all returned, in order, by
\* successive calls before the next state runs.
C34_TokensInEmitOrder ==
    [][/\ InEmitOrder(NonEOF(out') \o NonEOF(l_buf'))
       /\ InEmitOrder(l_buf')
       /\ StateRuns => l_buf = <<>>
       /\ l_buf # <<>> =>
             /\ ~StateRuns
             /\ l_state' = l_state
             /\ l_buf' # l_buf =>
                   (out' = Append(out, Head(l_buf)) /\ l_buf' = Tail(l_buf))
             /\ (out' # out /\ l_err = NoErr) => out' = Append(out, Head(l_buf))
      ]_vars

\* C34 witness: one state invocation emitted two words; the first call of
\* NextToken returned the first, the second call returned the second, and
\* the state that is current was not run in between.
C34_Witness ==
    /\ Len(out) = 2
    /\ ~IsEOF(out[1]) /\ ~IsEOF(out[2])
    /\ out[1].ref = 0 /\ out[2].ref = 1
    /\ nextRef = 2
    /\ l_buf = <<>>
    /\ l_state # Nil
    /\ l_err = NoErr
    /\ lexPc = "call"

(***************************************************************************)
(* SpecDiscardTo: DiscardTo (and NextRune, to start a search anywhere)     *)
(* called on a CustomLexer over inputs long enough for a search to take    *)
(* several peeks, with search strings of up to three runes.                *)
(***************************************************************************)
LongQueries ==
    {<<<<"a", Newline>>>>,
     <<<<"a", Newline>>, <<Newline, Newline, Newline>>>>,
     <<<<Newline, "a", "a">>, <<"a", Newline>>>>,
     <<<<"a", "a", Newline>>>>}

InitDiscardTo ==
    /\ InitCtx /\ IdleScanning /\ InitLexer /\ l_state # Nil /\ IdleDriver
    /\ InitTree /\ IdleSolo
    /\ input \in SeqUpTo(Chars, MaxLongInput)
    /\ termErr \in {EOFErr, errRead}
    /\ rd = 0
    /\ pos = StartPos
    /\ cursor = StartPos
    /\ b = <<>>
    /\ lastOp = NoOp
    /\ opRet = NoRet

NextDiscardTo ==
    \/ ScanNextRune
    \/ \E q \in LongQueries, k \in 0..MaxLongInput : ScanDiscardTo(q, k)

SpecDiscardTo == InitDiscardTo /\ [][NextDiscardTo]_vars

(***************************************************************************)
(* Claims about DiscardTo (checked under SpecDiscardTo).                   *)
(***************************************************************************)
\* The search string cand occurs in the input at offset p.
OccursAt(cand, p) == HasPrefix(Remaining(p), cand)

\* C35 (as the claim states it): on a lexer with no error recorded, over a
\* reader that ends with io.EOF, and for every number of runes the reader
\* has buffered: DiscardTo does not miss a search string that occurs across
\* the end of its first peek (it stops with a match, at or before that
\* occurrence); when the first peek holds no match it advances by the
\* number of runes peeked minus the longest search string's length plus
\* one, and by one at least, before it peeks again; and when it returns a
\* match the read position is at the start of an occurrence of the string
\* returned, the cursor is at the read position and no token text is held.
C35_DiscardToNoMiss ==
    [][(Called("DiscardTo") /\ Err = NoErr /\ termErr = EOFErr) =>
          \A k \in 0..MaxLongInput :
             LET q == lastOp'.q
                 m == maxLen(q)
                 first == PeekN(Scanner, Max(rBuffered(rd, k), m)).rns
                 peekEnd == rd + Len(first)
                 toDiscard == Max(1, Len(first) - m + 1)
                 r == DiscardTo(Scanner, q, k)
             IN  /\ \A i \in 1..Len(q) : \A at \in rd..Len(input) :
                       (/\ OccursAt(q[i], at)
                        /\ at < peekEnd
                        /\ peekEnd < at + Len(q[i]))
                       => (r.c # <<>> /\ r.s.rd <= at)
                 /\ ~matchAt(first, q, m, 0).found =>
                       r.s.rd >= Min(rd + toDiscard, Len(input))
                 /\ r.c # <<>> =>
                       /\ OccursAt(r.c, r.s.rd)
                       /\ r.s.pos.Offset = r.s.rd
                       /\ r.s.cursor = r.s.pos
                       /\ r.s.b = <<>>
      ]_vars

(***************************************************************************)
(* Claims about cancellation in Parser.Parse (checked under SpecParse).    *)
(***************************************************************************)
\* A step in which Parse pops the state stack and acts on what it finds.
PopStep == parsePc = "pop" /\ parsePc' # "pop"

\* C36: Parse looks at the context after popping a state and before running
\* it. With the context done and a state on the stack, the state is popped
\* and not run, and Parse returns the root and the context's error; with no
\* state on the stack Parse returns the root and nil, whether the context
\* is done or not; a state is run only when the context was not done at
\* that check.
C36_CancelCheckedAfterPop ==
    [][/\ (PopStep /\ stateStack # <<>> /\ ctxErr # NoErr) =>
             /\ Len(stateStack') = Len(stateStack) - 1
             /\ ran' = ran
             /\ parsePc' = "done"
             /\ parseErr' = ctxErr
             /\ retRoot' = p_root
       /\ (PopStep /\ stateStack = <<>>) =>
             /\ ran' = ran
             /\ parsePc' = "done"
             /\ parseErr' = NoErr
             /\ retRoot' = p_root
       /\ ran' # ran => (PopStep /\ ctxErr = NoErr /\ parsePc' = "run")
      ]_vars

\* C36 witness: the first state pushed two states and returned nil, the
\* context was cancelled, and Parse popped one of the two states and
\* returned the context's error without running it or the one left.
C36_Witness ==
    /\ parsePc = "done"
    /\ ctxErr # NoErr
    /\ parseErr = ctxErr
    /\ retRoot = p_root
    /\ ran = <<"s1">>
    /\ stateErr = NoErr
    /\ Len(pushed) = 2
    /\ Len(stateStack) = 1

(***************************************************************************)
(* Claims about the two goroutines of LexParse (checked under SpecLP).     *)
(***************************************************************************)
\* The tokens the lexing goroutine has sent: those the parser received and
\* those still in the channel.
Sent == recvd \o c

\* The lexing goroutine sends the tokens NextToken returned, in order, up to
\* and including the first token of type EOF, and then calls NextToken no
\* more; it ends only after it sent that token.
SendsThroughEOF ==
    /\ Len(Sent) = Len(out) - (IF lexPc = "send" THEN 1 ELSE 0)
    /\ \A i \in 1..Len(Sent) : Sent[i] = out[i]
    /\ \A i \in 1..(Len(out) - 1) : ~IsEOF(out[i])
    /\ lexPc \in {"exit", "done"} => (Sent # <<>> /\ IsEOF(Last(Sent)))
    /\ lpPc = "returned" => lexPc = "done"

\* C37 (as the claim states it): the lexing goroutine sends the tokens
\* NextToken returned up to and including the first EOF token and then
\* stops; when LexParse returns the EOF token was sent, and the parser has
\* received it.
C37_EOFAlwaysConsumed ==
    /\ SendsThroughEOF
    /\ lpPc = "returned" => (recvd # <<>> /\ IsEOF(Last(recvd)))

\* C37 (amended): the lexing goroutine sends the tokens NextToken returned
\* up to and including the first EOF token and then stops; when LexParse
\* returns the EOF token was sent, and it is the last token the parser
\* received or, if the parser returned before it asked for it, it is still
\* in the channel, behind the other tokens the parser did not ask for.
C37_EOFSentOnReturn ==
    /\ SendsThroughEOF
    /\ lpPc = "returned" =>
          IF c = <<>> THEN IsEOF(Last(recvd))
          ELSE /\ IsEOF(Last(c))
               /\ \A i \in 1..Len(recvd) : ~IsEOF(recvd[i])

\* C37 witness: LexParse returned after the parser had received one word;
\* the EOF token the lexing goroutine sent is still in the channel.
C37_Witness ==
    /\ lpPc = "returned"
    /\ Len(recvd) = 1
    /\ ~IsEOF(recvd[1])
    /\ Len(c) = 1
    /\ IsEOF(c[1])
    /\ out = recvd \o c

\* C38: when the parser returned success and the lexer's error is the
\* cancellation (context.Canceled), LexParse returns a nil error; and when
\* the caller did not cancel, so that the only cancellation is the one the
\* parsing goroutine triggers once Parse has returned, LexParse returns nil
\* unless the lexer recorded an error of a state or of the reader, which it
\* can only have done before it saw the cancellation.
C38_DriverCancelNotReported ==
    (lpPc = "returned" /\ parseErr = NoErr) =>
       /\ lexErr = Canceled => retErr = NoErr
       /\ ~callerCancelled =>
             /\ lexErr \in {NoErr, EOFErr, Canceled, errState, errRead}
             /\ lexErr \notin {errState, errRead} => retErr = NoErr
             /\ lexErr \in {errState, errRead} => retErr = lexErr

\* C38 witness: the parser returned success after one word while the lexer
\* still had a state to run; the lexer then saw the cancellation that the
\* parsing goroutine triggered, recorded it and sent EOF; LexParse returned
\* nil.
C38_Witness ==
    /\ lpPc = "returned"
    /\ ~callerCancelled
    /\ parseErr = NoErr
    /\ lexErr = Canceled
    /\ retErr = NoErr
    /\ runErr = NoErr
    /\ l_state # Nil
    /\ Len(recvd) = 1
    /\ ~IsEOF(recvd[1])

(***************************************************************************)
(* SpecFixed: LexParse with a lexer and a parser that are fixed: the lex   *)
(* state emits a word for an "a", fails with errState at a newline and     *)
(* ends at the end of the input; the parse state takes one token with Next *)
(* and returns nil. The caller never cancels; only the order of the steps  *)
(* of the two goroutines is free.                                          *)
(***************************************************************************)
\* What the lex state does on its next Run: one word was emitted for each
\* rune before.
FixedLexState ==
    IF nextRef >= Len(input)
    THEN [emits |-> <<>>, scanErr |-> FALSE, next |-> Nil, err |-> NoErr]
    ELSE IF input[nextRef + 1] = Newline
    THEN [emits |-> <<>>, scanErr |-> FALSE, next |-> Nil, err |-> errState]
    ELSE [emits |-> <<wordType>>, scanErr |-> FALSE, next |-> "lexState",
          err |-> NoErr]

FixedLexGoRun ==
    /\ NextTokenRun(FixedLexState, "send")
    /\ UNCHANGED <<slVars, ctxVars, chanVars, parseVars, lpVars>>
    /\ UNCHANGED <<treeVars, soloVars>>

\* The parse state: token := p.Next(ctx); return nil.
FixedParseNext == recvd = <<>> /\ ParseCall("Next")
FixedParseReturn == recvd # <<>> /\ ParseRunReturn(NoErr)

InitFixed ==
    /\ InitCtx /\ IdleScanning
    /\ InitLexer /\ l_state # Nil
    /\ input \in Inputs
    /\ termErr = EOFErr
    /\ rd = 0
    /\ pos = StartPos
    /\ cursor = StartPos
    /\ b = <<>>
    /\ lastOp = NoOp
    /\ opRet = NoRet
    /\ InitTree
    /\ IdleSolo
    /\ c = <<>>
    /\ chanCap \in 1..MaxChanCap
    /\ tc_err = NoErr
    /\ stateStack = PushState(<<>>, <<"parseState">>)
    /\ p_next = NilToken
    /\ p_token = NilToken
    /\ parsePc = "pop"
    /\ callKind = "none"
    /\ recvd = <<>>
    /\ lexErr = NoErr
    /\ parseErr = NoErr
    /\ lpPc = "wait"
    /\ retErr = NoErr

\* The lex state emits at most one token in a Run and the lexing goroutine
\* leaves its loop after the first EOF token, so that every call of
\* NextToken finds the buffer empty, a state set and no error recorded: it
\* sees the context done or runs the state.
NextFixed ==
    \/ LexGoCtxDone
    \/ FixedLexGoRun
    \/ LexGoSend
    \/ LexGoDone
    \/ ParsePop
    \/ FixedParseNext
    \/ ParseRecv
    \/ FixedParseReturn
    \/ ParseCancel
    \/ LexParseReturn

SpecFixed == InitFixed /\ [][NextFixed]_vars

\* The error LexParse returns when the lexing goroutine gets as far as it
\* can before the parsing goroutine takes a step: the lexer's error
\* errState if the input holds a newline, and nil, the parser's result,
\* otherwise.
ErrLexerFirst ==
    IF \E i \in 1..Len(input) : input[i] = Newline THEN errState ELSE NoErr

\* C39 (as the claim states it): with the input, the lex states and the
\* parse states fixed and a caller that never cancels, LexParse returns the
\* same error under every interleaving of the two goroutines: the error it
\* returns when the lexing goroutine runs first.
C39_SameErrorEveryInterleaving ==
    lpPc = "returned" => retErr = ErrLexerFirst

====
